---- MODULE Spec2Model ----
(***************************************************************************)
(* A model of the cmonkey front end: token stream, Pratt parser, AST       *)
(* ownership (allocation / destruction) and the AST string form.           *)
(*                                                                         *)
(* Text is modelled as a sequence of one-character strings, so that the    *)
(* string form can be lexed again.  Fixed pieces of error messages are     *)
(* kept as whole strings.                                                  *)
(***************************************************************************)
EXTENDS Integers, Sequences, FiniteSets, TLC

VARIABLES
    input,      \* the token sequence handed to the lexer
    parser,     \* parser_t: lexer, cur_tok, peek_tok, errors (+ heap ledger, call trace)
    program,    \* program_t returned by parse_program, or NULL
    text,       \* result of the string-form operation on the program
    reparsed,   \* parser and program obtained from lexing and parsing text
    pc,         \* position of the driver: "init", "parsed", "printed", "reparsed", "freed",
                \* "parser_freed",
                \* or "parse_crashed", "string_crashed", "free_crashed";
                \* "compiled", "compile_error", "running", "halted", "aborted" for the VM
    compiler,   \* compiler_t: scopes of instructions, constants pool, symbol table, error
    vm,         \* vm_t: constants, stack, sp, frames, globals, last popped, error
    hash_table, \* cm_hash_table under test, with the record of what was put
    codec,      \* the value handed to the operand codec and its bytes
    opcode,     \* the opcode looked up in opcode_definitions and its instruction
    number,     \* the long handed to long_to_string and its text
    linked_list \* cm_list under test, with the record of what was added

utilvars == <<hash_table, codec, opcode, number, linked_list>>

vmvars == <<compiler, vm>>

parservars == <<input, parser, program, text, reparsed>>

vars == <<input, parser, program, text, reparsed, pc, compiler, vm, hash_table, codec,
          opcode, number, linked_list>>

(***************************************************************************)
(* Tokens (token.h)                                                        *)
(***************************************************************************)
TokenTypes ==
    {"ILLEGAL", "END_OF_FILE", "IDENT", "INT", "ASSIGN", "PLUS", "MINUS",
     "BANG", "SLASH", "ASTERISK", "LT", "GT", "EQ", "NOT_EQ", "COMMA",
     "SEMICOLON", "LPAREN", "RPAREN", "LBRACE", "RBRACE", "FUNCTION", "LET",
     "IF", "ELSE", "RETURN", "TRUE", "FALSE"}

Tok(type, literal) == [type |-> type, literal |-> literal]

NULL == [kind |-> "NULL"]

NullTok == [type |-> "NULL", literal |-> <<>>]

EOFTok == Tok("END_OF_FILE", <<>>)

\* the tokens used to build inputs
tIDENT(c) == Tok("IDENT", <<c>>)
tINT(c) == Tok("INT", <<c>>)
tASSIGN == Tok("ASSIGN", <<"=">>)
tPLUS == Tok("PLUS", <<"+">>)
tMINUS == Tok("MINUS", <<"-">>)
tBANG == Tok("BANG", <<"!">>)
tSLASH == Tok("SLASH", <<"/">>)
tASTERISK == Tok("ASTERISK", <<"*">>)
tLT == Tok("LT", <<"<">>)
tGT == Tok("GT", <<">">>)
tEQ == Tok("EQ", <<"=", "=">>)
tNOT_EQ == Tok("NOT_EQ", <<"!", "=">>)
tCOMMA == Tok("COMMA", <<",">>)
tSEMICOLON == Tok("SEMICOLON", <<";">>)
tLPAREN == Tok("LPAREN", <<"(">>)
tRPAREN == Tok("RPAREN", <<")">>)
tLBRACE == Tok("LBRACE", <<"{">>)
tRBRACE == Tok("RBRACE", <<"}">>)
tFUNCTION == Tok("FUNCTION", <<"f", "n">>)
tLET == Tok("LET", <<"l", "e", "t">>)
tIF == Tok("IF", <<"i", "f">>)
tELSE == Tok("ELSE", <<"e", "l", "s", "e">>)
tRETURN == Tok("RETURN", <<"r", "e", "t", "u", "r", "n">>)
tTRUE == Tok("TRUE", <<"t", "r", "u", "e">>)
tFALSE == Tok("FALSE", <<"f", "a", "l", "s", "e">>)

(***************************************************************************)
(* Lexer over an already tokenised stream: delivers the tokens in order    *)
(* and END_OF_FILE repeatedly once the stream is exhausted.                *)
(***************************************************************************)
lexer_init(toks) == [toks |-> toks, read |-> 0]

lexer_next_token(l) ==
    IF l.read < Len(l.toks)
    THEN [tok |-> l.toks[l.read + 1], lexer |-> [l EXCEPT !.read = @ + 1]]
    ELSE [tok |-> EOFTok, lexer |-> [l EXCEPT !.read = @ + 1]]

get_token_name_from_type(t) == t

(***************************************************************************)
(* Parser tables                                                           *)
(***************************************************************************)
prefix_fns ==
    [t \in TokenTypes |->
        CASE t = "IDENT" -> "parse_identifier_expression"
          [] t = "INT" -> "parse_integer_expression"
          [] t \in {"MINUS", "BANG"} -> "parse_prefix_expression"
          [] t = "LPAREN" -> "parse_grouped_expression"
          [] t = "FUNCTION" -> "parse_function_literal"
          [] t = "IF" -> "parse_if_expression"
          [] t \in {"TRUE", "FALSE"} -> "parse_boolean_expression"
          [] OTHER -> "NULL"]

infix_fns ==
    [t \in TokenTypes |->
        CASE t \in {"PLUS", "MINUS", "SLASH", "ASTERISK", "LT", "GT", "EQ", "NOT_EQ"}
                -> "parse_infix_expression"
          [] t = "LPAREN" -> "parse_call_expression"
          [] OTHER -> "NULL"]

\* operator_precedence_t
LOWEST == 1
EQUALS == 2
LESSGREATER == 3
SUM == 4
PRODUCT == 5
PREFIX == 6
CALL == 7

\* precedence with '/' placed in the class of '+' and '-'
precedence_slash_as_sum(tok_type) ==
    CASE tok_type \in {"EQ", "NOT_EQ"} -> EQUALS
      [] tok_type \in {"LT", "GT"} -> LESSGREATER
      [] tok_type \in {"PLUS", "MINUS", "SLASH"} -> SUM
      [] tok_type = "ASTERISK" -> PRODUCT
      [] tok_type = "LPAREN" -> CALL
      [] OTHER -> LOWEST

precedence(tok_type) ==
    CASE tok_type \in {"EQ", "NOT_EQ"} -> EQUALS
      [] tok_type \in {"LT", "GT"} -> LESSGREATER
      [] tok_type \in {"PLUS", "MINUS"} -> SUM
      [] tok_type \in {"SLASH", "ASTERISK"} -> PRODUCT
      [] tok_type = "LPAREN" -> CALL
      [] OTHER -> LOWEST

peek_precedence(p) == precedence(p.peek_tok.type)

cur_precedence(p) == precedence(p.cur_tok.type)

(***************************************************************************)
(* Parser state and its elementary operations                              *)
(***************************************************************************)
\* A process that has crashed (p.crashed) executes nothing any more: every
\* elementary operation below leaves the state of a crashed parser alone.
\* an advance that drops the token the lexer delivers and takes the one after it
parser_next_token_skipping(p) ==
    LET r == lexer_next_token(lexer_next_token(p.lexer).lexer)
    IN  IF p.crashed THEN p
        ELSE [p EXCEPT !.cur_tok = p.peek_tok, !.peek_tok = r.tok, !.lexer = r.lexer]

parser_next_token(p) ==
    LET r == lexer_next_token(p.lexer)
    IN  IF p.crashed THEN p
        ELSE [p EXCEPT !.cur_tok = p.peek_tok, !.peek_tok = r.tok, !.lexer = r.lexer]

parser_init(l) ==
    parser_next_token(parser_next_token(
        [lexer |-> l, cur_tok |-> NullTok, peek_tok |-> NullTok, errors |-> <<>>,
         nalloc |-> 0, freed |-> <<>>, crashed |-> FALSE, trace |-> <<>>]))

add_parse_error(p, errmsg) ==
    IF p.crashed THEN p ELSE [p EXCEPT !.errors = Append(@, errmsg)]

handle_no_prefix_fn(p) ==
    add_parse_error(p,
        <<"no prefix parse function for the token \"">> \o p.cur_tok.literal \o <<"\"">>)

peek_error(p, tok_type) ==
    add_parse_error(p,
        <<"expected next token to be ", get_token_name_from_type(tok_type),
          ", got ", get_token_name_from_type(p.peek_tok.type), " instead">>)

\* One record of the call trace: the tokens and the counters at entry (0)
\* and at return (1) of a parse function, and what it returned.
TraceEntry(op, arg, p0, p1, ret) ==
    [op |-> op, arg |-> arg, ret |-> ret,
     cur0 |-> p0.cur_tok, peek0 |-> p0.peek_tok, read0 |-> p0.lexer.read,
     nerr0 |-> Len(p0.errors), nalloc0 |-> p0.nalloc,
     cur1 |-> p1.cur_tok, peek1 |-> p1.peek_tok, read1 |-> p1.lexer.read,
     nerr1 |-> Len(p1.errors)]

trace(op, arg, p0, p1, ret) ==
    IF p1.crashed THEN p1
    ELSE [p1 EXCEPT !.trace = Append(@, TraceEntry(op, arg, p0, p1, ret))]

\* expect_peek advancing past the unexpected token as well
expect_peek_skipping(p, tok_type) ==
    LET q == IF p.peek_tok.type = tok_type
             THEN parser_next_token(p)
             ELSE parser_next_token(peek_error(p, tok_type))
        ok == p.peek_tok.type = tok_type
    IN  [p |-> trace("expect_peek", tok_type, p, q, ok), ok |-> ok]

expect_peek(p, tok_type) ==
    LET q == IF p.peek_tok.type = tok_type
             THEN parser_next_token(p)
             ELSE peek_error(p, tok_type)
        ok == p.peek_tok.type = tok_type
    IN  [p |-> trace("expect_peek", tok_type, p, q, ok), ok |-> ok]

(***************************************************************************)
(* Heap ledger.  Every AST node is allocated together with a copy of its   *)
(* token; both are cells of the ledger, named by the node's id.  A free    *)
(* function yields the cells it releases, in order, and whether it         *)
(* dereferenced a null pointer on the way (which ends the process).        *)
(***************************************************************************)
RECURSIVE free_expression(_), free_statement(_), cm_list_free(_, _),
          free_statements(_, _), free_program_statements(_, _)

Cells(id) == <<<<"token", id>>, <<"node", id>>>>

Released(cells) == [cells |-> cells, crash |-> FALSE]

NullDeref == [cells |-> <<>>, crash |-> TRUE]

\* a; b  -- b runs only if a did not crash
Then(a, b) ==
    IF a.crash THEN a ELSE [cells |-> a.cells \o b.cells, crash |-> b.crash]

List(items) == [kind |-> "list", items |-> items]

free_identifier(ident) == Released(Cells(ident.id))

free_integer_expression(int_exp) == Released(Cells(int_exp.id))

free_prefix_expression(prefix_exp) ==
    Then(Released(<<<<"token", prefix_exp.id>>>>),
    Then(free_expression(prefix_exp.right),
         Released(<<<<"node", prefix_exp.id>>>>)))

free_infix_expression(infix_exp) ==
    Then(Released(<<<<"token", infix_exp.id>>>>),
    Then(free_expression(infix_exp.left),
    Then(free_expression(infix_exp.right),
         Released(<<<<"node", infix_exp.id>>>>))))

free_boolean_expression(bool_exp) == Released(Cells(bool_exp.id))

free_return_statement(ret_stmt) ==
    Then(Released(<<<<"token", ret_stmt.id>>>>),
    Then(IF ret_stmt.return_value # NULL
         THEN free_expression(ret_stmt.return_value) ELSE Released(<<>>),
         Released(<<<<"node", ret_stmt.id>>>>)))

free_letstatement(let_stmt) ==
    Then(IF let_stmt.name # NULL THEN free_identifier(let_stmt.name) ELSE Released(<<>>),
    Then(Released(<<<<"token", let_stmt.id>>>>),
    Then(IF let_stmt.value # NULL THEN free_expression(let_stmt.value) ELSE Released(<<>>),
         Released(<<<<"node", let_stmt.id>>>>))))

free_if_expression(if_exp) ==
    Then(Released(<<<<"token", if_exp.id>>>>),
    Then(IF if_exp.condition # NULL
         THEN free_expression(if_exp.condition) ELSE Released(<<>>),
    Then(IF if_exp.consequence # NULL
         THEN free_statement(if_exp.consequence) ELSE Released(<<>>),
    Then(IF if_exp.alternative # NULL
         THEN free_statement(if_exp.alternative) ELSE Released(<<>>),
         Released(<<<<"node", if_exp.id>>>>)))))

free_function_literal(function) ==
    Then(IF function.body # NULL THEN free_statement(function.body) ELSE Released(<<>>),
    Then(IF function.parameters # NULL
         THEN cm_list_free(function.parameters, "free_identifier") ELSE Released(<<>>),
         Released(Cells(function.id))))

free_call_expression(call_exp) ==
    Then(IF call_exp.function # NULL
         THEN free_expression(call_exp.function) ELSE Released(<<>>),
    Then(cm_list_free(call_exp.arguments, "free_expression"),
         Released(Cells(call_exp.id))))

\* free(ptr) of the C library on the data of a list node: the one cell the
\* pointer names (the struct of an AST node, or the string of an error
\* message) and nothing it owns; free(NULL) does nothing
free(data) ==
    IF data = NULL THEN Released(<<>>)
    ELSE Released(<<<<IF data.kind = "error" THEN "error" ELSE "node", data.id>>>>)

\* cm_list_free: free_data is applied to the data of every list node, and
\* free where the callback is NULL; the list and its nodes are not cells
\* of the ledger
cm_list_free(list, free_data) ==
    IF list = NULL \/ list.items = <<>> THEN Released(<<>>)
    ELSE Then(CASE free_data = "free_identifier" -> free_identifier(Head(list.items))
                [] free_data = "free_expression" -> free_expression(Head(list.items))
                [] free_data = "NULL" -> free(Head(list.items)),
              cm_list_free(List(Tail(list.items)), free_data))

free_expression(exp) ==
    IF exp = NULL THEN NullDeref
    ELSE CASE exp.kind = "Ident" -> free_identifier(exp)
           [] exp.kind = "Int" -> free_integer_expression(exp)
           [] exp.kind = "Prefix" -> free_prefix_expression(exp)
           [] exp.kind = "Infix" -> free_infix_expression(exp)
           [] exp.kind = "Bool" -> free_boolean_expression(exp)
           [] exp.kind = "If" -> free_if_expression(exp)
           [] exp.kind = "FunctionLit" -> free_function_literal(exp)
           [] exp.kind = "Call" -> free_call_expression(exp)
           [] OTHER -> Released(<<>>)

free_expression_statement(exp_stmt) ==
    Then(Released(<<<<"token", exp_stmt.id>>>>),
    Then(IF exp_stmt.expression # NULL
         THEN free_expression(exp_stmt.expression) ELSE Released(<<>>),
         Released(<<<<"node", exp_stmt.id>>>>)))

\* the loop  for (i = from; i < nstatements; i++) free_statement(statements[i])
free_statements(statements, from) ==
    IF from > Len(statements) THEN Released(<<>>)
    ELSE Then(free_statement(statements[from]),
              free_statements(statements, from + 1))

free_block_statement(block_stmt) ==
    Then(free_statements(block_stmt.statements, 1), Released(Cells(block_stmt.id)))

free_statement(stmt) ==
    IF stmt = NULL THEN NullDeref
    ELSE CASE stmt.kind = "Let" -> free_letstatement(stmt)
           [] stmt.kind = "Return" -> free_return_statement(stmt)
           [] stmt.kind = "ExprStmt" -> free_expression_statement(stmt)
           [] stmt.kind = "Block" -> free_block_statement(stmt)
           [] OTHER -> free(stmt)

\* the loop of program_free, which skips null statements; the program_t
\* struct and its statements array are not cells of the ledger
free_program_statements(statements, from) ==
    IF from > Len(statements) THEN Released(<<>>)
    ELSE Then(IF statements[from] # NULL
              THEN free_statement(statements[from]) ELSE Released(<<>>),
              free_program_statements(statements, from + 1))

program_free(prog) ==
    IF prog = NULL THEN Released(<<>>) ELSE free_program_statements(prog.statements, 1)

\* the effect of a free call on the parser's process: the ledger and the crash flag
Free(p, released) ==
    IF p.crashed THEN p
    ELSE [p EXCEPT !.freed = @ \o released.cells, !.crashed = released.crash]

\* parser->errors as a cm_list: NULL until the first error is added, then a
\* list whose data are the messages, in the order they were added
ErrorList(errors) ==
    IF errors = <<>> THEN NULL
    ELSE List([i \in 1..Len(errors) |-> [kind |-> "error", id |-> i]])

\* parser_free: the lexer, the two tokens, the error list (with the NULL
\* callback) and the parser_t are released, in this order
parser_free(p) ==
    Then(Released(<<<<"lexer", 0>>, <<"cur_tok", 0>>, <<"peek_tok", 0>>>>),
    Then(cm_list_free(ErrorList(p.errors), "NULL"),
         Released(<<<<"parser", 0>>>>)))

(***************************************************************************)
(* Node constructors.  A node's id is the number of the allocation that    *)
(* created it; Alloc accounts for the node and its token copy.             *)
(***************************************************************************)
Alloc(p) == IF p.crashed THEN p ELSE [p EXCEPT !.nalloc = @ + 1]

R(p, exp) == [p |-> p, exp |-> exp]

create_letstatement(p) ==
    R(Alloc(p), [kind |-> "Let", id |-> p.nalloc + 1, token |-> p.cur_tok,
                 name |-> NULL, value |-> NULL])

create_return_statement(p) ==
    R(Alloc(p), [kind |-> "Return", id |-> p.nalloc + 1, token |-> p.cur_tok,
                 return_value |-> NULL])

create_expression_statement(p) ==
    R(Alloc(p), [kind |-> "ExprStmt", id |-> p.nalloc + 1, token |-> p.cur_tok,
                 expression |-> NULL])

create_block_statement(p) ==
    R(Alloc(p), [kind |-> "Block", id |-> p.nalloc + 1, token |-> p.cur_tok,
                 statements |-> <<>>])

create_function_literal(p) ==
    R(Alloc(p), [kind |-> "FunctionLit", id |-> p.nalloc + 1, token |-> p.cur_tok,
                 parameters |-> List(<<>>), body |-> NULL])

create_call_expression(p) ==
    R(Alloc(p), [kind |-> "Call", id |-> p.nalloc + 1, token |-> p.peek_tok,
                 arguments |-> List(<<>>), function |-> NULL])

create_identifier(p) ==
    R(Alloc(p), [kind |-> "Ident", id |-> p.nalloc + 1, token |-> p.cur_tok,
                 value |-> p.cur_tok.literal])

cm_list_add(list, data) == List(Append(list.items, data))

add_statement_to_program(prog, stmt) ==
    [prog EXCEPT !.statements = Append(@, stmt)]

add_statement_to_block(block_stmt, stmt) ==
    [block_stmt EXCEPT !.statements = Append(@, stmt)]

program_init == [kind |-> "Program", statements |-> <<>>]

(***************************************************************************)
(* long: 64 bits.  The integers TLC computes with have 32, so a long is    *)
(* kept as its sign and its magnitude in three limbs of nine decimal       *)
(* digits: the value is hi * 10^18 + mid * 10^9 + lo, negative when neg.   *)
(***************************************************************************)
LimbBase == 10 ^ 9

Lng(neg, hi, mid, lo) == [neg |-> neg, hi |-> hi, mid |-> mid, lo |-> lo]

\* the long of an integer of the model
Long(n) ==
    LET m == IF n < 0 THEN 0 - n ELSE n
    IN  Lng(n < 0, 0, m \div LimbBase, m % LimbBase)

\* the integer of a long of at most nine digits
IntOf(l) == IF l.neg THEN 0 - l.lo ELSE l.lo

\* 9223372036854775807 and -9223372036854775808
LONG_MAX == Lng(FALSE, 9, 223372036, 854775807)

LONG_MIN == Lng(TRUE, 9, 223372036, 854775808)

IsZero(l) == l.hi = 0 /\ l.mid = 0 /\ l.lo = 0

\* |a| > |b|
MagnitudeAbove(a, b) ==
    \/ a.hi > b.hi
    \/ a.hi = b.hi /\ a.mid > b.mid
    \/ a.hi = b.hi /\ a.mid = b.mid /\ a.lo > b.lo

\* l >= 10
AtLeastTen(l) == ~l.neg /\ (l.hi > 0 \/ l.mid > 0 \/ l.lo >= 10)

\* l / 10 and l % 10, for l >= 0
DividedByTen(l) ==
    [l EXCEPT !.hi = @ \div 10,
              !.mid = @ \div 10 + (l.hi % 10) * (LimbBase \div 10),
              !.lo = @ \div 10 + (l.mid % 10) * (LimbBase \div 10)]

RemainderOfTen(l) == l.lo % 10

\* the magnitude times ten plus the digit d, the sign kept
TimesTenPlus(l, d) ==
    [l EXCEPT !.hi = @ * 10 + l.mid \div (LimbBase \div 10),
              !.mid = (@ % (LimbBase \div 10)) * 10 + l.lo \div (LimbBase \div 10),
              !.lo = (@ % (LimbBase \div 10)) * 10 + d]

\* the low byte of l in two's complement (10^9 is a multiple of 256)
LowByte(l) == IF l.neg THEN (256 - (l.lo % 256)) % 256 ELSE l.lo % 256

(***************************************************************************)
(* strtol(literal, &ep, 10) on the text of an INT token                    *)
(***************************************************************************)
Digits == <<"0", "1", "2", "3", "4", "5", "6", "7", "8", "9">>

IsDigit(c) == \E d \in 1..10 : Digits[d] = c

DigitValue(c) == (CHOOSE d \in 1..10 : Digits[d] = c) - 1

\* isspace in the C locale; the vertical tab (byte 11) has no escape and
\* stands in its string as the character itself
VT == ""

IsSpace(c) == c \in {" ", "\t", "\n", VT, "\f", "\r"}

RECURSIVE SkipSpace(_, _), StrToLFrom(_, _, _, _, _)
SkipSpace(str, i) ==
    IF i <= Len(str) /\ IsSpace(str[i]) THEN SkipSpace(str, i + 1) ELSE i

\* [value, ep, erange]: the digits of str from index i on are accumulated
\* into acc, which carries the sign; first is the index of the first digit
\* and over tells that the value has left the range of long.  Without a
\* digit the value is 0 and ep is the start of str; out of range the value
\* is LONG_MAX or LONG_MIN, errno is ERANGE and ep is past the digits.
StrToLFrom(str, i, first, acc, over) ==
    IF i > Len(str) \/ ~IsDigit(str[i])
    THEN IF i = first THEN [value |-> Long(0), ep |-> 1, erange |-> FALSE]
         ELSE [value |-> IF over THEN (IF acc.neg THEN LONG_MIN ELSE LONG_MAX)
                         ELSE [acc EXCEPT !.neg = @ /\ ~IsZero(acc)],
               ep |-> i, erange |-> over]
    ELSE LET next == TimesTenPlus(acc, DigitValue(str[i]))
         IN  IF over \/ MagnitudeAbove(next, IF acc.neg THEN LONG_MIN ELSE LONG_MAX)
             THEN StrToLFrom(str, i + 1, first, acc, TRUE)
             ELSE StrToLFrom(str, i + 1, first, next, FALSE)

\* white space is skipped, then a sign is taken, then the digits
strtol(str) ==
    LET i == SkipSpace(str, 1)
        signed == i <= Len(str) /\ str[i] \in {"-", "+"}
        first == IF signed THEN i + 1 ELSE i
    IN  StrToLFrom(str, first, first, Lng(signed /\ str[i] = "-", 0, 0, 0), FALSE)

(***************************************************************************)
(* The parse functions.  Each takes the parser state and returns the new   *)
(* parser state together with the node it built (or NULL).                 *)
(***************************************************************************)
\* The parse functions call one another directly; the tables prefix_fns and
\* infix_fns hold names, which CallPrefixFn and CallInfixFn dispatch on.  A
\* function takes what a call returns before it goes on, as the code does, and
\* goes no further once the process has crashed.
RECURSIVE parse_expression(_, _), parse_expression_loop(_, _, _),
          parser_parse_statement(_), parse_block_statement_loop(_, _),
          parse_call_arguments_loop(_, _), parse_function_parameters_loop(_, _)

parse_identifier_expression(p) == create_identifier(p)

parse_integer_expression(p) ==
    LET n == strtol(p.cur_tok.literal)
        int_exp == [kind |-> "Int", id |-> p.nalloc + 1, token |-> p.cur_tok,
                    value |-> n.value]
        p1 == Alloc(p)
    IN  IF n.ep = 1 \/ n.ep <= Len(p.cur_tok.literal) \/ n.erange
        THEN R(add_parse_error(p1,
                   <<"could not parse ">> \o p.cur_tok.literal \o <<" as integer">>),
               int_exp)
        ELSE R(p1, int_exp)

parse_prefix_expression(p) ==
    LET prefix_exp == [kind |-> "Prefix", id |-> p.nalloc + 1, token |-> p.cur_tok,
                       operator |-> p.cur_tok.literal, right |-> NULL]
        Operand(right) == [prefix_exp EXCEPT !.right = right]
    IN  [parse_expression(parser_next_token(Alloc(p)), PREFIX) EXCEPT !.exp = Operand(@)]

parse_infix_expression(p, left) ==
    LET infix_exp == [kind |-> "Infix", id |-> p.nalloc + 1, token |-> p.cur_tok,
                      operator |-> p.cur_tok.literal, left |-> left, right |-> NULL]
        Operand(right) == [infix_exp EXCEPT !.right = right]
    IN  [parse_expression(parser_next_token(Alloc(p)), cur_precedence(p))
            EXCEPT !.exp = Operand(@)]

parse_boolean_expression(p) ==
    R(Alloc(p), [kind |-> "Bool", id |-> p.nalloc + 1, token |-> p.cur_tok,
                 value |-> (p.cur_tok.type = "TRUE")])

parse_grouped_expression(p) ==
    LET Close(r) ==
            LET e == expect_peek(r.p, "RPAREN")
            IN  [r EXCEPT !.p = IF e.ok THEN e.p ELSE Free(e.p, free_expression(r.exp)),
                          !.exp = IF e.ok THEN @ ELSE NULL]
    IN  Close(parse_expression(parser_next_token(p), LOWEST))

\* while (cur != RBRACE && cur != END_OF_FILE) { parse statement; add; advance }
parse_block_statement_loop(p, block_stmt) ==
    IF p.crashed \/ p.cur_tok.type = "RBRACE" \/ p.cur_tok.type = "END_OF_FILE"
    THEN R(p, block_stmt)
    ELSE LET Add(r) ==
                 LET block == IF r.exp # NULL
                              THEN add_statement_to_block(block_stmt, r.exp)
                              ELSE block_stmt
                 IN  IF r.p.crashed THEN R(r.p, block)
                     ELSE parse_block_statement_loop(parser_next_token(r.p), block)
         IN  Add(parser_parse_statement(p))

parse_block_statement(p) ==
    LET c == create_block_statement(p)
        Return(r) == [r EXCEPT !.p = trace("parse_block_statement", "", p, @, r.exp)]
    IN  Return(parse_block_statement_loop(parser_next_token(c.p), c.exp))

parse_if_expression(p) ==
    LET if_exp == [kind |-> "If", id |-> p.nalloc + 1, token |-> p.cur_tok,
                   condition |-> NULL, consequence |-> NULL, alternative |-> NULL]
        e1 == expect_peek(Alloc(p), "LPAREN")
        Consequence(if_c, b1) ==
            LET if_b == [if_c EXCEPT !.consequence = b1.exp]
                e4 == expect_peek(parser_next_token(b1.p), "LBRACE")
                Alternative(b2) == [if_b EXCEPT !.alternative = b2]
            IN  IF b1.p.peek_tok.type = "ELSE"
                THEN IF ~e4.ok THEN R(Free(e4.p, free_if_expression(if_b)), NULL)
                     ELSE [parse_block_statement(e4.p) EXCEPT !.exp = Alternative(@)]
                ELSE R(b1.p, if_b)
        Condition(c) ==
            LET if_c == [if_exp EXCEPT !.condition = c.exp]
                e2 == expect_peek(c.p, "RPAREN")
                e3 == expect_peek(e2.p, "LBRACE")
            IN  IF c.p.crashed THEN R(c.p, NULL)
                ELSE IF ~e2.ok THEN R(Free(e2.p, free_if_expression(if_c)), NULL)
                ELSE IF ~e3.ok THEN R(Free(e3.p, free_if_expression(if_c)), NULL)
                ELSE Consequence(if_c, parse_block_statement(e3.p))
    IN  IF ~e1.ok THEN R(Free(e1.p, Released(Cells(if_exp.id))), NULL)
        ELSE Condition(parse_expression(parser_next_token(e1.p), LOWEST))

\* while (peek == COMMA) { advance; advance; add identifier }
parse_function_parameters_loop(p, parameters) ==
    IF p.crashed \/ p.peek_tok.type # "COMMA" THEN R(p, parameters)
    ELSE LET c == create_identifier(parser_next_token(parser_next_token(p)))
         IN  parse_function_parameters_loop(c.p, cm_list_add(parameters, c.exp))

\* returns the function literal with its parameters set (NULL when ')' is missing)
parse_function_parameters(p, function) ==
    LET c == create_identifier(parser_next_token(p))
        l == parse_function_parameters_loop(c.p, cm_list_add(function.parameters, c.exp))
        e == expect_peek(l.p, "RPAREN")
    IN  IF p.peek_tok.type = "RPAREN" THEN R(parser_next_token(p), function)
        ELSE IF ~e.ok
             THEN R(Free(e.p, cm_list_free(l.exp, "free_identifier")),
                    [function EXCEPT !.parameters = NULL])
             ELSE R(e.p, [function EXCEPT !.parameters = l.exp])

parse_function_literal(p) ==
    LET c == create_function_literal(p)
        e1 == expect_peek(c.p, "LPAREN")
        f == parse_function_parameters(e1.p, c.exp)
        e2 == expect_peek(f.p, "LBRACE")
        Body(b) == [f.exp EXCEPT !.body = b]
    IN  IF ~e1.ok THEN R(Free(e1.p, free_function_literal(c.exp)), NULL)
        ELSE IF f.exp.parameters = NULL
             THEN R(Free(f.p, free_function_literal(f.exp)), NULL)
        ELSE IF ~e2.ok
             THEN R(Free(e2.p, Then(cm_list_free(f.exp.parameters, "free_identifier"),
                                    Released(Cells(f.exp.id)))), NULL)
        ELSE [parse_block_statement(e2.p) EXCEPT !.exp = Body(@)]

\* while (peek == COMMA) { advance; advance; add parse_expression(LOWEST) }
parse_call_arguments_loop(p, arguments) ==
    IF p.crashed \/ p.peek_tok.type # "COMMA" THEN R(p, arguments)
    ELSE LET Add(a) ==
                 IF a.p.crashed THEN R(a.p, cm_list_add(arguments, a.exp))
                 ELSE parse_call_arguments_loop(a.p, cm_list_add(arguments, a.exp))
         IN  Add(parse_expression(parser_next_token(parser_next_token(p)), LOWEST))

\* returns the call expression with its arguments set (NULL when ')' is missing)
parse_call_arguments(p, call_exp) ==
    LET Close(l) ==
            LET e == expect_peek(l.p, "RPAREN")
            IN  [l EXCEPT !.p = IF e.ok THEN e.p
                                ELSE Free(e.p, cm_list_free(l.exp, "free_expression")),
                          !.exp = [call_exp EXCEPT !.arguments = IF e.ok THEN l.exp ELSE NULL]]
        First(a) ==
            Close(IF a.p.crashed THEN R(a.p, cm_list_add(call_exp.arguments, a.exp))
                  ELSE parse_call_arguments_loop(
                           a.p, cm_list_add(call_exp.arguments, a.exp)))
    IN  IF p.peek_tok.type = "RPAREN" THEN R(parser_next_token(p), call_exp)
        ELSE First(parse_expression(parser_next_token(p), LOWEST))

parse_call_expression(p, function) ==
    LET c == create_call_expression(p)
        Return(a) ==
            IF a.exp.arguments = NULL
            THEN R(Free(a.p, free_call_expression(a.exp)), NULL)
            ELSE [a EXCEPT !.exp = [@ EXCEPT !.function = function]]
    IN  Return(parse_call_arguments(c.p, c.exp))

\* prefix_fn(parser) for the function prefix_fns names for the current token
CallPrefixFn(p) ==
    CASE prefix_fns[p.cur_tok.type] = "parse_identifier_expression" ->
            parse_identifier_expression(p)
      [] prefix_fns[p.cur_tok.type] = "parse_integer_expression" ->
            parse_integer_expression(p)
      [] prefix_fns[p.cur_tok.type] = "parse_prefix_expression" ->
            parse_prefix_expression(p)
      [] prefix_fns[p.cur_tok.type] = "parse_grouped_expression" ->
            parse_grouped_expression(p)
      [] prefix_fns[p.cur_tok.type] = "parse_function_literal" ->
            parse_function_literal(p)
      [] prefix_fns[p.cur_tok.type] = "parse_if_expression" ->
            parse_if_expression(p)
      [] prefix_fns[p.cur_tok.type] = "parse_boolean_expression" ->
            parse_boolean_expression(p)

\* infix_fn(parser, left) for the function infix_fns names for the current token
CallInfixFn(p, left) ==
    CASE infix_fns[p.cur_tok.type] = "parse_infix_expression" ->
            parse_infix_expression(p, left)
      [] infix_fns[p.cur_tok.type] = "parse_call_expression" ->
            parse_call_expression(p, left)

\* the loop stopping only when the peek token binds strictly weaker
parse_expression_loop_weaker(left, prec, entry) ==
    IF \/ left.p.crashed
       \/ left.p.peek_tok.type = "SEMICOLON"
       \/ prec > peek_precedence(left.p)
       \/ infix_fns[left.p.peek_tok.type] = "NULL"
    THEN R(trace("parse_expression", prec, entry, left.p, left.exp), left.exp)
    ELSE LET Again(r) ==
                 IF r.p.crashed THEN r
                 ELSE parse_expression_loop(
                          R(trace("infix_fn", prec, left.p, r.p, r.exp), r.exp), prec, entry)
         IN  Again(CallInfixFn(parser_next_token(left.p), left.exp))

\* the for (;;) loop of parse_expression and its return: left is the parser
\* with the left operand parsed so far, entry the parser at the call of
\* parse_expression
parse_expression_loop(left, prec, entry) ==
    IF \/ left.p.crashed
       \/ left.p.peek_tok.type = "SEMICOLON"
       \/ prec >= peek_precedence(left.p)
       \/ infix_fns[left.p.peek_tok.type] = "NULL"
    THEN R(trace("parse_expression", prec, entry, left.p, left.exp), left.exp)
    ELSE LET Again(r) ==
                 IF r.p.crashed THEN r
                 ELSE parse_expression_loop(
                          R(trace("infix_fn", prec, left.p, r.p, r.exp), r.exp), prec, entry)
         IN  Again(CallInfixFn(parser_next_token(left.p), left.exp))

parse_expression(p, prec) ==
    CASE p.crashed -> R(p, NULL)
      [] ~p.crashed /\ prefix_fns[p.cur_tok.type] = "NULL" ->
            R(trace("parse_expression", prec, p, handle_no_prefix_fn(p), NULL), NULL)
      [] OTHER -> parse_expression_loop(CallPrefixFn(p), prec, p)

\* parse_letstatement parsing the value with the precedence of a prefix operand
parse_letstatement_prefix(p) ==
    LET c == create_letstatement(p)
        e1 == expect_peek(c.p, "IDENT")
        i == parse_identifier_expression(e1.p)
        let_n == [c.exp EXCEPT !.name = i.exp]
        e2 == expect_peek(i.p, "ASSIGN")
        \* the value set, and the ';' after it passed if there is one
        Value(v) ==
            [v EXCEPT !.p = IF @.peek_tok.type = "SEMICOLON" THEN parser_next_token(@)
                            ELSE @,
                      !.exp = [let_n EXCEPT !.value = v.exp]]
        Return(r) == [r EXCEPT !.p = trace("parse_letstatement", "", p, @, r.exp)]
    IN  Return(IF ~e1.ok THEN R(Free(e1.p, free_statement(c.exp)), NULL)
               ELSE IF ~e2.ok THEN R(Free(e2.p, free_statement(let_n)), NULL)
               ELSE Value(parse_expression(parser_next_token(e2.p), PREFIX)))

parse_letstatement(p) ==
    LET c == create_letstatement(p)
        e1 == expect_peek(c.p, "IDENT")
        i == parse_identifier_expression(e1.p)
        let_n == [c.exp EXCEPT !.name = i.exp]
        e2 == expect_peek(i.p, "ASSIGN")
        \* the value set, and the ';' after it passed if there is one
        Value(v) ==
            [v EXCEPT !.p = IF @.peek_tok.type = "SEMICOLON" THEN parser_next_token(@)
                            ELSE @,
                      !.exp = [let_n EXCEPT !.value = v.exp]]
        Return(r) == [r EXCEPT !.p = trace("parse_letstatement", "", p, @, r.exp)]
    IN  Return(IF ~e1.ok THEN R(Free(e1.p, free_statement(c.exp)), NULL)
               ELSE IF ~e2.ok THEN R(Free(e2.p, free_statement(let_n)), NULL)
               ELSE Value(parse_expression(parser_next_token(e2.p), LOWEST)))

parse_return_statement(p) ==
    LET c == create_return_statement(p)
        Return(v) ==
            LET q == IF v.p.peek_tok.type = "SEMICOLON" THEN parser_next_token(v.p) ELSE v.p
                ret_stmt == [c.exp EXCEPT !.return_value = v.exp]
            IN  [v EXCEPT !.p = trace("parse_return_statement", "", p, q, ret_stmt),
                          !.exp = ret_stmt]
    IN  Return(parse_expression(parser_next_token(c.p), LOWEST))

parse_expression_statement(p) ==
    LET c == create_expression_statement(p)
        Expression(v) == [c.exp EXCEPT !.expression = v]
    IN  [parse_expression(c.p, LOWEST)
            EXCEPT !.p = IF @.peek_tok.type = "SEMICOLON" THEN parser_next_token(@) ELSE @,
                   !.exp = Expression(@)]

parser_parse_statement(p) ==
    CASE p.cur_tok.type = "LET" -> parse_letstatement(p)
      [] p.cur_tok.type = "RETURN" -> parse_return_statement(p)
      [] OTHER -> parse_expression_statement(p)

RECURSIVE parse_program_loop(_, _)
\* the loop advancing twice after each statement
parse_program_loop_advancing_twice(p, prog) ==
    IF p.crashed \/ p.cur_tok.type = "END_OF_FILE" THEN R(p, prog)
    ELSE LET Add(r) ==
                 LET added == IF r.exp # NULL THEN add_statement_to_program(prog, r.exp)
                              ELSE prog
                 IN  IF r.p.crashed THEN R(r.p, added)
                     ELSE parse_program_loop(
                              parser_next_token(parser_next_token(r.p)), added)
         IN  Add(parser_parse_statement(p))

\* while (cur != END_OF_FILE) { parse statement; add if not NULL; advance }
parse_program_loop(p, prog) ==
    IF p.crashed \/ p.cur_tok.type = "END_OF_FILE" THEN R(p, prog)
    ELSE LET Add(r) ==
                 LET added == IF r.exp # NULL THEN add_statement_to_program(prog, r.exp)
                              ELSE prog
                 IN  IF r.p.crashed THEN R(r.p, added)
                     ELSE parse_program_loop(parser_next_token(r.p), added)
         IN  Add(parser_parse_statement(p))

\* a crashed process returns no program
parse_program(p) ==
    LET Return(r) == IF r.p.crashed THEN R(r.p, NULL) ELSE r
    IN  Return(parse_program_loop(p, program_init))

(***************************************************************************)
(* The string form (node.string).  A result is the text produced (NULL     *)
(* when the function returns a null pointer), the fault that ended the     *)
(* process while computing it, if any, and whether a null pointer was      *)
(* handed to a %s conversion on the way (undefined behaviour: glibc        *)
(* prints "(null)", which is the text kept here; the driver decides).      *)
(* A string function also takes the build's way with the overflow of      *)
(* -1 * l, which the text of the least long runs into.                     *)
(* The call stack holds the frames of a descent into any tree the parser   *)
(* builds; depth is the room left for the frames of a recursion that does  *)
(* not descend, in frames.                                                 *)
(***************************************************************************)
RECURSIVE node_string(_, _, _), JoinParameters(_, _, _, _, _), asprintf_from(_, _, _)

Str(str) == [str |-> str, isnull |-> FALSE, fault |-> "none", nullarg |-> FALSE]

NullStr == [str |-> <<>>, isnull |-> TRUE, fault |-> "none", nullarg |-> FALSE]

Fault(f) == [str |-> <<>>, isnull |-> TRUE, fault |-> f, nullarg |-> FALSE]

NullText == <<"(", "n", "u", "l", "l", ")">>

\* the arguments are evaluated first, in order; then the pieces are pasted.
\* The string functions below take each argument that is a call before they
\* go on to the next: a fault in it ends the process there.
asprintf_from(parts, i, acc) ==
    IF i > Len(parts) THEN acc
    ELSE IF parts[i].fault # "none" THEN Fault(parts[i].fault)
    ELSE asprintf_from(parts, i + 1,
            [str |-> acc.str \o (IF parts[i].isnull THEN NullText ELSE parts[i].str),
             isnull |-> FALSE, fault |-> "none",
             nullarg |-> acc.nullarg \/ parts[i].nullarg \/ parts[i].isnull])

asprintf(parts) == asprintf_from(parts, 1, Str(<<>>))

strdup(str) == Str(str)

\* -1 * l is undefined for the least long: the build wraps or traps
Overflow == {"wraps", "traps"}

Trapped(l, overflow) == l = LONG_MIN /\ overflow = "traps"

\* -1 * l; the product overflows for the least long, which is undefined: where
\* the build does not trap, the value wraps and stays the least long
negated(l) == IF l = LONG_MIN THEN LONG_MIN ELSE [l EXCEPT !.neg = ~@ /\ ~IsZero(l)]

\* the character stored by str[i] = 48 + v: the digit of v for v in 0..9, and
\* for any other v the character whose code is the low byte of 48 + v
DigitChar(v) ==
    IF ((48 + v) % 256) \in 48..57 THEN Digits[((48 + v) % 256) - 47] ELSE "?"

calculate_string_size(l) ==
    LET RECURSIVE count(_, _)
        count(v, size) == IF AtLeastTen(v) THEN count(DividedByTen(v), size + 1) ELSE size
    IN  (IF l.neg THEN count(negated(l), 1) ELSE count(l, 0)) + 1

\* the buffer of str_size + 1 bytes is filled from the back; the result is the
\* text from its first byte up to the terminating 0 ("NUL" stands for the byte
\* 0, "?" for a byte that was never written or holds no digit)
long_to_string(l) ==
    LET str_size == calculate_string_size(l) + 1
        is_negative == l.neg
        RECURSIVE fill(_, _, _)
        fill(v, index, str) ==
            IF AtLeastTen(v)
            THEN fill(DividedByTen(v), index - 1,
                      [str EXCEPT ![index - 1] = DigitChar(RemainderOfTen(v))])
            ELSE [index |-> index - 1,
                  str |-> [str EXCEPT ![index - 1] = DigitChar(LowByte(v))]]
        zero == [[i \in 0..str_size |-> "?"] EXCEPT ![str_size - 1] = "NUL"]
        f == fill(IF is_negative THEN negated(l) ELSE l, str_size - 1, zero)
        buf == IF is_negative THEN [f.str EXCEPT ![f.index - 1] = "-"] ELSE f.str
        end == CHOOSE n \in 0..str_size : buf[n] = "NUL" /\ \A m \in 0..(n - 1) : buf[m] # "NUL"
    IN  [i \in 1..end |-> buf[i - 1]]

identifier_string(ident) == strdup(ident.value)

\* long_to_string computes -1 * l for a negative value, first in
\* calculate_string_size: the build that traps ends the process there
integer_string(int_exp, overflow) ==
    IF Trapped(int_exp.value, overflow) THEN Fault("overflow_trap")
    ELSE Str(long_to_string(int_exp.value))

boolean_expression_string(bool_exp) ==
    IF bool_exp.value THEN strdup(<<"t", "r", "u", "e">>)
    ELSE strdup(<<"f", "a", "l", "s", "e">>)

letstatement_string(let_stmt, depth, overflow) ==
    LET Value(name, value) ==
            IF value.fault # "none" THEN value
            ELSE asprintf(<<Str(let_stmt.token.literal), Str(<<" ">>), name,
                            Str(<<" ", "=", " ">>), value, Str(<<";">>)>>)
        Name(name) ==
            IF name.fault # "none" THEN name
            ELSE Value(name, IF let_stmt.value # NULL
                             THEN node_string(let_stmt.value, depth, overflow)
                             ELSE strdup(<<>>))
    IN  Name(node_string(let_stmt.name, depth, overflow))

\* the first %s is ret_stmt->statement.node.string(ret_stmt): the string form
\* of the return statement itself
return_statement_string(ret_stmt, depth, overflow) ==
    LET value_string == IF ret_stmt.return_value # NULL
                        THEN node_string(ret_stmt.return_value, depth, overflow)
                        ELSE strdup(<<>>)
        Self(self) ==
            IF self.fault # "none" THEN self
            ELSE asprintf(<<self, Str(<<" ">>), value_string, Str(<<";">>)>>)
    IN  IF value_string.fault # "none" THEN value_string
        ELSE Self(node_string(ret_stmt, depth - 1, overflow))

prefix_expression_string(prefix_exp, depth, overflow) ==
    LET Right(right) ==
            IF right.fault # "none" THEN right
            ELSE asprintf(<<Str(<<"(">>), Str(prefix_exp.operator), right, Str(<<")">>)>>)
    IN  Right(node_string(prefix_exp.right, depth, overflow))

infix_expression_string(infix_exp, depth, overflow) ==
    LET Right(left, right) ==
            IF right.fault # "none" THEN right
            ELSE asprintf(<<Str(<<"(">>), left, Str(<<" ">>), Str(infix_exp.operator),
                            Str(<<" ">>), right, Str(<<")">>)>>)
        Left(left) ==
            IF left.fault # "none" THEN left
            ELSE Right(left, node_string(infix_exp.right, depth, overflow))
    IN  Left(node_string(infix_exp.left, depth, overflow))

expression_statement_string(exp_stmt, depth, overflow) ==
    IF exp_stmt.expression # NULL THEN node_string(exp_stmt.expression, depth, overflow)
    ELSE strdup(<<>>)

block_statement_string(block_stmt, depth, overflow) ==
    LET RECURSIVE join(_, _)
        join(i, string) ==
            IF i > Len(block_stmt.statements) THEN string
            ELSE LET stmt_string == node_string(block_stmt.statements[i], depth, overflow)
                 IN  IF stmt_string.fault # "none" THEN stmt_string
                     ELSE join(i + 1,
                              IF string.isnull THEN stmt_string
                              ELSE asprintf(<<string, Str(<<" ">>), stmt_string>>))
    IN  join(1, NullStr)

if_expression_string(if_exp, depth, overflow) ==
    LET Alternative(condition, consequence, alternative) ==
            IF alternative.fault # "none" THEN alternative
            ELSE asprintf(<<Str(<<"i", "f">>), condition, Str(<<" ">>), consequence,
                            Str(<<" ", "e", "l", "s", "e", " ">>), alternative>>)
        Consequence(condition, consequence) ==
            IF consequence.fault # "none" THEN consequence
            ELSE IF if_exp.alternative # NULL
                 THEN Alternative(condition, consequence,
                                  node_string(if_exp.alternative, depth, overflow))
                 ELSE asprintf(<<Str(<<"i", "f">>), condition, Str(<<" ">>), consequence>>)
        Condition(condition) ==
            IF condition.fault # "none" THEN condition
            ELSE Consequence(condition, node_string(if_exp.consequence, depth, overflow))
    IN  Condition(node_string(if_exp.condition, depth, overflow))

\* string is NULL before the first parameter, then "string, param_string"
JoinParameters(items, i, string, depth, overflow) ==
    IF i > Len(items) THEN string
    ELSE LET param_string == node_string(items[i], depth, overflow)
         IN  IF param_string.fault # "none" THEN param_string
             ELSE JoinParameters(items, i + 1,
                      IF string.isnull THEN asprintf(<<param_string>>)
                      ELSE asprintf(<<string, Str(<<",", " ">>), param_string>>),
                      depth, overflow)

generate_parameters_string(parameters_list, depth, overflow) ==
    IF parameters_list = NULL \/ Len(parameters_list.items) = 0 THEN strdup(<<>>)
    ELSE JoinParameters(parameters_list.items, 1, NullStr, depth, overflow)

function_literal_string(func, depth, overflow) ==
    LET params_string == generate_parameters_string(func.parameters, depth, overflow)
        Body(body_string) ==
            IF body_string.fault # "none" THEN body_string
            ELSE asprintf(<<Str(func.token.literal), Str(<<"(">>), params_string,
                            Str(<<")", " ">>), body_string>>)
    IN  IF params_string.fault # "none" THEN params_string
        ELSE Body(node_string(func.body, depth, overflow))

call_expression_string(call_exp, depth, overflow) ==
    LET args_string == generate_parameters_string(call_exp.arguments, depth, overflow)
        Function(function_string) ==
            IF function_string.fault # "none" THEN function_string
            ELSE asprintf(<<function_string, Str(<<"(">>), args_string, Str(<<")">>)>>)
    IN  IF args_string.fault # "none" THEN args_string
        ELSE Function(node_string(call_exp.function, depth, overflow))

program_string(prog, depth, overflow) ==
    LET RECURSIVE join(_, _)
        join(i, prog_string) ==
            IF i > Len(prog.statements) THEN prog_string
            ELSE LET stmt_string == node_string(prog.statements[i], depth, overflow)
                 IN  IF stmt_string.fault # "none" THEN stmt_string
                     ELSE join(i + 1,
                              IF ~prog_string.isnull
                              THEN asprintf(<<prog_string, Str(<<" ">>), stmt_string>>)
                              ELSE asprintf(<<stmt_string>>))
    IN  join(1, NullStr)

\* node->string(node), the call through the node's function pointer: a null
\* node is dereferenced, and the call fails when no room is left
node_string(node, depth, overflow) ==
    IF node = NULL \/ depth = 0
    THEN Fault(IF node = NULL THEN "null_deref" ELSE "stack_overflow")
    ELSE CASE node.kind = "Let" -> letstatement_string(node, depth, overflow)
           [] node.kind = "Return" -> return_statement_string(node, depth, overflow)
           [] node.kind = "ExprStmt" -> expression_statement_string(node, depth, overflow)
           [] node.kind = "Block" -> block_statement_string(node, depth, overflow)
           [] node.kind = "Ident" -> identifier_string(node)
           [] node.kind = "Int" -> integer_string(node, overflow)
           [] node.kind = "Bool" -> boolean_expression_string(node)
           [] node.kind = "Prefix" -> prefix_expression_string(node, depth, overflow)
           [] node.kind = "Infix" -> infix_expression_string(node, depth, overflow)
           [] node.kind = "If" -> if_expression_string(node, depth, overflow)
           [] node.kind = "FunctionLit" -> function_literal_string(node, depth, overflow)
           [] node.kind = "Call" -> call_expression_string(node, depth, overflow)
           [] node.kind = "Program" -> program_string(node, depth, overflow)

(***************************************************************************)
(* The lexer on text (section 4.1 of the specification), for the token     *)
(* kinds of token.h                                                        *)
(***************************************************************************)
Letters ==
    {"a", "b", "c", "d", "e", "f", "g", "h", "i", "j", "k", "l", "m", "n", "o", "p",
     "q", "r", "s", "t", "u", "v", "w", "x", "y", "z", "_",
     "A", "B", "C", "D", "E", "F", "G", "H", "I", "J", "K", "L", "M", "N", "O", "P",
     "Q", "R", "S", "T", "U", "V", "W", "X", "Y", "Z"}

Whitespace == {" ", "\t", "\r", "\n"}

lookup_ident(word) ==
    CASE word = <<"l", "e", "t">> -> "LET"
      [] word = <<"f", "n">> -> "FUNCTION"
      [] word = <<"i", "f">> -> "IF"
      [] word = <<"e", "l", "s", "e">> -> "ELSE"
      [] word = <<"r", "e", "t", "u", "r", "n">> -> "RETURN"
      [] word = <<"t", "r", "u", "e">> -> "TRUE"
      [] word = <<"f", "a", "l", "s", "e">> -> "FALSE"
      [] OTHER -> "IDENT"

OneCharToken(c) ==
    CASE c = "+" -> "PLUS"
      [] c = "-" -> "MINUS"
      [] c = "*" -> "ASTERISK"
      [] c = "/" -> "SLASH"
      [] c = "<" -> "LT"
      [] c = ">" -> "GT"
      [] c = "(" -> "LPAREN"
      [] c = ")" -> "RPAREN"
      [] c = "{" -> "LBRACE"
      [] c = "}" -> "RBRACE"
      [] c = "," -> "COMMA"
      [] c = ";" -> "SEMICOLON"
      [] c = "=" -> "ASSIGN"
      [] c = "!" -> "BANG"
      [] OTHER -> "ILLEGAL"

RECURSIVE ScanWhile(_, _, _)
\* the index after the longest run of characters of set that starts at i
ScanWhile(str, i, set) ==
    IF i <= Len(str) /\ str[i] \in set THEN ScanWhile(str, i + 1, set) ELSE i

RECURSIVE LexFrom(_, _, _)
LexFrom(str, i, toks) ==
    IF i > Len(str) THEN toks
    ELSE LET c == str[i]
             two == IF i < Len(str) THEN <<c, str[i + 1]>> ELSE <<c>>
             identEnd == ScanWhile(str, i, Letters \cup {Digits[d] : d \in 1..10})
             intEnd == ScanWhile(str, i, {Digits[d] : d \in 1..10})
         IN  CASE c \in Whitespace -> LexFrom(str, i + 1, toks)
               [] two = <<"=", "=">> -> LexFrom(str, i + 2, Append(toks, Tok("EQ", two)))
               [] two = <<"!", "=">> -> LexFrom(str, i + 2, Append(toks, Tok("NOT_EQ", two)))
               [] c \in Letters ->
                    LexFrom(str, identEnd,
                        Append(toks, Tok(lookup_ident(SubSeq(str, i, identEnd - 1)),
                                         SubSeq(str, i, identEnd - 1))))
               [] IsDigit(c) ->
                    LexFrom(str, intEnd, Append(toks, Tok("INT", SubSeq(str, i, intEnd - 1))))
               [] OTHER -> LexFrom(str, i + 1, Append(toks, Tok(OneCharToken(c), <<c>>)))

Lex(str) == LexFrom(str, 1, <<>>)

(***************************************************************************)
(* The structure of an AST: the node kinds, operators, values and          *)
(* children, without the allocation ids and the token copies               *)
(***************************************************************************)
RECURSIVE Shape(_)
ShapeSeq(items) == [i \in 1..Len(items) |-> Shape(items[i])]

Shape(n) ==
    IF n = NULL THEN NULL
    ELSE CASE n.kind = "Program" -> [kind |-> "Program", statements |-> ShapeSeq(n.statements)]
           [] n.kind = "Block" -> [kind |-> "Block", statements |-> ShapeSeq(n.statements)]
           [] n.kind = "Let" ->
                [kind |-> "Let", name |-> Shape(n.name), value |-> Shape(n.value)]
           [] n.kind = "Return" -> [kind |-> "Return", return_value |-> Shape(n.return_value)]
           [] n.kind = "ExprStmt" -> [kind |-> "ExprStmt", expression |-> Shape(n.expression)]
           [] n.kind \in {"Ident", "Int", "Bool"} -> [kind |-> n.kind, value |-> n.value]
           [] n.kind = "Prefix" ->
                [kind |-> "Prefix", operator |-> n.operator, right |-> Shape(n.right)]
           [] n.kind = "Infix" ->
                [kind |-> "Infix", operator |-> n.operator, left |-> Shape(n.left),
                 right |-> Shape(n.right)]
           [] n.kind = "If" ->
                [kind |-> "If", condition |-> Shape(n.condition),
                 consequence |-> Shape(n.consequence), alternative |-> Shape(n.alternative)]
           [] n.kind = "FunctionLit" ->
                [kind |-> "FunctionLit", parameters |-> Shape(n.parameters),
                 body |-> Shape(n.body)]
           [] n.kind = "Call" ->
                [kind |-> "Call", function |-> Shape(n.function),
                 arguments |-> Shape(n.arguments)]
           [] n.kind = "list" -> List(ShapeSeq(n.items))

(***************************************************************************)
(* The driver: parse the input, optionally print the program and parse the *)
(* printed text again, then destroy the program and the parser.            *)
(***************************************************************************)
\* room on the call stack for the frames of a call of the string form on
\* the node it was called on
MaxStack == 4

ParseProgram ==
    /\ pc = "init"
    /\ \E r \in {parse_program(parser)} :
           /\ parser' = r.p
           /\ program' = r.exp
           /\ pc' = IF r.p.crashed THEN "parse_crashed" ELSE "parsed"
    /\ UNCHANGED <<input, text, reparsed, vmvars, utilvars>>

\* program->node.string(program); handing a null pointer to %s is undefined:
\* the text with "(null)" in it, or a crash
ProgramString ==
    /\ pc = "parsed"
    /\ \E overflow \in Overflow :
           LET r == node_string(program, MaxStack, overflow)
           IN  \E outcome \in (IF r.nullarg THEN {"printed", "null_deref"} ELSE {"printed"}) :
                   text' = IF outcome = "printed" THEN r ELSE Fault("null_deref")
    /\ pc' = IF text'.fault = "none" THEN "printed" ELSE "string_crashed"
    /\ UNCHANGED <<input, parser, program, reparsed, vmvars, utilvars>>

Reparse ==
    /\ pc = "printed"
    /\ ~text.isnull
    /\ \E r \in {parse_program(parser_init(lexer_init(Lex(text.str))))} :
           reparsed' = [errors |-> r.p.errors, crashed |-> r.p.crashed, program |-> r.exp]
    /\ pc' = "reparsed"
    /\ UNCHANGED <<input, parser, program, text, vmvars, utilvars>>

ProgramFree ==
    /\ pc \in {"parsed", "printed", "reparsed"}
    /\ parser' = Free(parser, program_free(program))
    /\ pc' = IF parser'.crashed THEN "free_crashed" ELSE "freed"
    /\ UNCHANGED <<input, program, text, reparsed, vmvars, utilvars>>

\* parser_free(parser), once the program is destroyed
ParserFree ==
    /\ pc = "freed"
    /\ parser' = Free(parser, parser_free(parser))
    /\ pc' = "parser_freed"
    /\ UNCHANGED <<input, program, text, reparsed, vmvars, utilvars>>

Next == ParseProgram \/ ProgramString \/ Reparse \/ ProgramFree \/ ParserFree

InitWith(inputs) ==
    /\ input \in inputs
    /\ parser = parser_init(lexer_init(input))
    /\ program = NULL
    /\ text = NullStr
    /\ reparsed = NULL
    /\ pc = "init"
    /\ compiler = NULL
    /\ vm = NULL
    /\ hash_table = NULL
    /\ codec = NULL
    /\ opcode = NULL
    /\ number = NULL
    /\ linked_list = NULL

(***************************************************************************)
(* Inputs                                                                  *)
(***************************************************************************)
SeqsUpTo(S, n) == UNION {[1..k -> S] : k \in 0..n}

RECURSIVE Flatten(_)
Flatten(seqs) == IF seqs = <<>> THEN <<>> ELSE Head(seqs) \o Flatten(Tail(seqs))

\* arbitrary (mostly malformed) token sequences
MaxLen == 4

TokenAlphabet ==
    {tIDENT("a"), tPLUS, tLPAREN, tRPAREN, tSEMICOLON, tCOMMA, tLET, tASSIGN}

TokenInputs == SeqsUpTo(TokenAlphabet, MaxLen)

\* statements
MaxStmtLen == 5

StmtAlphabet == {tLET, tRETURN, tIDENT("a"), tASSIGN, tSEMICOLON, tPLUS}

StmtInputs == SeqsUpTo(StmtAlphabet, MaxStmtLen)

\* operator sequences
MaxOpsLen == 5

OpsAlphabet == {tIDENT("a"), tMINUS, tASTERISK, tSLASH, tSEMICOLON}

OpsInputs == SeqsUpTo(OpsAlphabet, MaxOpsLen)

\* well-formed operator expressions without grouping parentheses: up to
\* MaxOperands operands joined by binary operators, at most one of the
\* operands carrying a prefix operator and/or a call
MaxOperands == 3

BinaryOperators == {tEQ, tNOT_EQ, tLT, tGT, tPLUS, tMINUS, tASTERISK, tSLASH}

OperandNames == <<"a", "b", "c", "d", "e", "g", "h">>

OperandForms == {"plain", "neg", "bang", "call", "negcall"}

OperandTokens(k, form) ==
    LET id == tIDENT(OperandNames[k])
        call == <<id, tLPAREN, tIDENT("x"), tRPAREN>>
    IN  CASE form = "plain" -> <<id>>
          [] form = "neg" -> <<tMINUS, id>>
          [] form = "bang" -> <<tBANG, id>>
          [] form = "call" -> call
          [] form = "negcall" -> <<tMINUS>> \o call

ExprTokens(n, ops, k, form) ==
    Flatten([i \in 1..n |->
                (IF i > 1 THEN <<ops[i - 1]>> ELSE <<>>)
                \o OperandTokens(i, IF i = k THEN form ELSE "plain")])

ExprInputs ==
    {ExprTokens(n, ops, k, form) :
        <<n, ops, k, form>> \in
            UNION {{m} \X [1..(m - 1) -> BinaryOperators] \X (1..m) \X OperandForms
                   : m \in 1..MaxOperands}}

\* well-formed programs, with expressions nested up to MaxDepth deep
MaxDepth == 1

Atoms == {<<tIDENT("a")>>, <<tINT("1")>>, <<tTRUE>>}

RECURSIVE WFExpr(_), WFStmt(_), WFBlock(_)
WFExpr(d) ==
    IF d = 0 THEN Atoms
    ELSE LET E == WFExpr(d - 1)
             B == WFBlock(d - 1)
         IN  E \cup {<<op>> \o e : op \in {tMINUS, tBANG}, e \in E}
               \cup {l \o <<op>> \o r : l \in Atoms, op \in {tPLUS, tASTERISK, tLT}, r \in E}
               \cup {<<tLPAREN>> \o e \o <<tRPAREN>> : e \in E}
               \cup {<<tIF, tLPAREN>> \o c \o <<tRPAREN, tLBRACE>> \o b \o <<tRBRACE>>
                     : c \in Atoms, b \in B}
               \cup {<<tIF, tLPAREN>> \o c \o <<tRPAREN, tLBRACE>> \o b \o
                     <<tRBRACE, tELSE, tLBRACE>> \o e \o <<tRBRACE>>
                     : c \in {<<tIDENT("a")>>}, b \in B, e \in {<<>>, <<tIDENT("b")>>}}
               \cup {<<tFUNCTION, tLPAREN>> \o ps \o <<tRPAREN, tLBRACE>> \o b \o <<tRBRACE>>
                     : ps \in {<<>>, <<tIDENT("x")>>, <<tIDENT("x"), tCOMMA, tIDENT("y")>>},
                       b \in B}
               \cup {<<tIDENT("f"), tLPAREN>> \o as \o <<tRPAREN>>
                     : as \in {<<>>} \cup E \cup {e \o <<tCOMMA, tINT("2")>> : e \in Atoms}}

WFStmt(d) ==
    UNION {{<<tLET, tIDENT("v"), tASSIGN>> \o e \o <<tSEMICOLON>>,
            <<tRETURN>> \o e \o <<tSEMICOLON>>,
            e \o <<tSEMICOLON>>,
            e} : e \in WFExpr(d)}

WFBlock(d) == {<<>>} \cup WFStmt(d)

WFInputs ==
    {<<>>} \cup WFStmt(MaxDepth) \cup {s1 \o s2 : s1 \in WFStmt(0), s2 \in WFStmt(0)}

(***************************************************************************)
(* Specifications: the driver on each family of inputs                     *)
(***************************************************************************)
Init == InitWith(TokenInputs)

Spec == Init /\ [][Next]_vars

InitStmt == InitWith(StmtInputs)

SpecStmt == InitStmt /\ [][Next]_vars

InitOps == InitWith(OpsInputs)

SpecOps == InitOps /\ [][Next]_vars

InitExpr == InitWith(ExprInputs)

SpecExpr == InitExpr /\ [][Next]_vars

InitWF == InitWith(WFInputs)

SpecWF == InitWF /\ [][Next]_vars

(***************************************************************************)
(* Operand codec (spec 6.3): operands are unsigned and big-endian          *)
(***************************************************************************)
RECURSIVE size_t_to_uint8_le(_, _), size_t_to_uint8_be(_, _), be_to_size_t(_, _)
\* the bytes of n, least significant first
size_t_to_uint8_le(n, width) ==
    IF width = 0 THEN <<>>
    ELSE <<n % 256>> \o size_t_to_uint8_le(n \div 256, width - 1)

\* the width low-order bytes of n, most significant first
size_t_to_uint8_be(n, width) ==
    IF width = 0 THEN <<>>
    ELSE Append(size_t_to_uint8_be(n \div 256, width - 1), n % 256)

\* the number whose big-endian form is the first width bytes
be_to_size_t(bytes, width) ==
    IF width = 0 THEN 0
    ELSE be_to_size_t(bytes, width - 1) * 256 + bytes[width]

(***************************************************************************)
(* Opcodes and instructions (cmonkey_utils.c: opcode_t, opcode_definitions)*)
(***************************************************************************)
OPCONSTANT == 1
OPADD == 2
OPSUB == 3
OPMUL == 4
OPDIV == 5
OPPOP == 6
OPTRUE == 7
OPFALSE == 8
OPEQUAL == 9
OPNOTEQUAL == 10
OPGREATERTHAN == 11
OPMINUS == 12
OPBANG == 13
OPJMPFALSE == 14
OPJMP == 15
OPNULL == 16
OPSETGLOBAL == 17
OPGETGLOBAL == 18
OPARRAY == 19
OPHASH == 20
OPINDEX == 21
OPCALL == 22
OPRETURNVALUE == 23
OPRETURN == 24
OPSETLOCAL == 25
OPGETLOCAL == 26
OPGETBUILTIN == 27

OpDef(name, desc, width) == [name |-> name, desc |-> desc, operand_widths |-> <<width>>]

opcode_definitions ==
    << OpDef("OPCONSTANT", "constant", 2),
       OpDef("OPADD", "+", 0),
       OpDef("OPSUB", "-", 0),
       OpDef("OPMUL", "*", 0),
       OpDef("OPDIV", "/", 0),
       OpDef("OPPOP", "pop", 0),
       OpDef("OPTRUE", "true", 0),
       OpDef("OPFALSE", "false", 0),
       OpDef("OPEQUAL", "==", 0),
       OpDef("OPNOTEQUAL", "!=", 0),
       OpDef("OPGREATERTHAN", ">", 0),
       OpDef("OPMINUS", "-", 0),
       OpDef("OPBANG", "not", 0),
       OpDef("OPJMPFALSE", "jump_if_false", 2),
       OpDef("OPJMP", "jump", 2),
       OpDef("OPNULL", "null", 0),
       OpDef("OPSETGLOBAL", "set_global", 2),
       OpDef("OPGETGLOBAL", "get_global", 2),
       OpDef("OPARRAY", "array", 2),
       OpDef("OPHASH", "hash", 2),
       OpDef("OPINDEX", "index", 0),
       OpDef("OPCALL", "call", 1),
       OpDef("OPRETURNVALUE", "reeturn_value", 0),
       OpDef("OPRETURN", "return", 0),
       OpDef("OPSETLOCAL", "set_local", 1),
       OpDef("OPGETLOCAL", "get_local", 1),
       OpDef("OPGETBUILTIN", "get_builtin", 1) >>

\* opcode_definitions[op - 1] of a zero-based array
\* the table is indexed with the opcode itself
opcode_definition_lookup_unshifted(op) ==
    opcode_definitions[(op % Len(opcode_definitions)) + 1]

opcode_definition_lookup(op) == opcode_definitions[op]

\* the width of the operand of op, 0 when it has none
OperandWidth(op) == opcode_definition_lookup(op).operand_widths[1]

\* the encoded bytes of one instruction
instruction_init(op, operands) ==
    <<op>> \o Flatten([i \in 1..Len(operands) |->
                          size_t_to_uint8_be(operands[i], OperandWidth(op))])

\* the byte at a zero-based offset of an instruction buffer
ByteAt(ins, offset) == ins[offset + 1]

\* the operand of the instruction that starts at offset
OperandAt(ins, offset) ==
    be_to_size_t(SubSeq(ins, offset + 2, offset + 1 + OperandWidth(ByteAt(ins, offset))),
                 OperandWidth(ByteAt(ins, offset)))

(***************************************************************************)
(* Runtime values (spec 3)                                                 *)
(***************************************************************************)
Integer(n) == [type |-> "INTEGER", value |-> n]

Boolean(b) == [type |-> "BOOLEAN", value |-> b]

Null == [type |-> "NULL"]

CompiledFunction(instructions, num_locals, num_parameters) ==
    [type |-> "COMPILED_FUNCTION", instructions |-> instructions,
     num_locals |-> num_locals, num_parameters |-> num_parameters]

Builtin(fn_id) == [type |-> "BUILTIN", fn_id |-> fn_id]

Error(message) == [type |-> "ERROR", message |-> message]

\* the content of a slot nothing was stored in
Uninitialized == [type |-> "UNINITIALIZED"]

\* the host functions, in the order of their indices
builtins ==
    << <<"l", "e", "n">>, <<"f", "i", "r", "s", "t">>, <<"l", "a", "s", "t">>,
       <<"r", "e", "s", "t">>, <<"p", "u", "s", "h">>, <<"p", "u", "t", "s">> >>

(***************************************************************************)
(* Symbol table (spec 4.3): a vector of scopes, the global one first       *)
(***************************************************************************)
Symbol(name, scope, index) == [name |-> name, scope |-> scope, index |-> index]

NewScope == [store |-> <<>>, num_definitions |-> 0]

symbol_table_init == <<NewScope>>

push_scope(table) == Append(table, NewScope)

pop_scope(table) == SubSeq(table, 1, Len(table) - 1)

\* the symbol define(name) returns
defined_symbol(table, name) ==
    Symbol(name, IF Len(table) = 1 THEN "GLOBAL" ELSE "LOCAL",
           table[Len(table)].num_definitions)

\* the next free index of the current scope; an earlier entry of the name is shadowed
define(table, name) ==
    [table EXCEPT ![Len(table)] =
        [store |-> Append(@.store, defined_symbol(table, name)),
         num_definitions |-> @.num_definitions + 1]]

\* the latest entry of name in one scope, or NULL
LookupScope(scope, name) ==
    LET hits == {i \in DOMAIN scope.store : scope.store[i].name = name}
    IN  IF hits = {} THEN NULL
        ELSE scope.store[CHOOSE i \in hits : \A j \in hits : j <= i]

RECURSIVE resolve_from(_, _, _)
resolve_from(table, level, name) ==
    IF level = 0
    THEN IF \E i \in DOMAIN builtins : builtins[i] = name
         THEN Symbol(name, "BUILTIN", (CHOOSE i \in DOMAIN builtins : builtins[i] = name) - 1)
         ELSE NULL
    ELSE IF LookupScope(table[level], name) # NULL
         THEN LookupScope(table[level], name)
         ELSE resolve_from(table, level - 1, name)

\* innermost scope first, the builtins last
resolve(table, name) == resolve_from(table, Len(table), name)

(***************************************************************************)
(* Compiler (spec 4.4)                                                     *)
(***************************************************************************)
\* the operand emitted for a jump whose target is not known yet
PLACEHOLDER == 65535

NoInstruction == [opcode |-> 0, position |-> 0]

CompilationScope ==
    [instructions |-> <<>>, last_instruction |-> NoInstruction,
     previous_instruction |-> NoInstruction]

compiler_init ==
    [scopes |-> <<CompilationScope>>, constants |-> <<>>,
     symbol_table |-> symbol_table_init, error |-> NULL]

current_scope(c) == c.scopes[Len(c.scopes)]

current_instructions(c) == current_scope(c).instructions

\* the offset at which the next instruction will start
current_position(c) == Len(current_instructions(c))

\* append the instruction; its starting offset is in last_instruction
emit(c, op, operands) ==
    [c EXCEPT !.scopes[Len(c.scopes)] =
        [instructions |-> @.instructions \o instruction_init(op, operands),
         last_instruction |-> [opcode |-> op, position |-> Len(@.instructions)],
         previous_instruction |-> @.last_instruction]]

add_constant(c, value) == [c EXCEPT !.constants = Append(@, value)]

\* add the value to the pool and emit CONST with its index
emit_constant(c, value) == emit(add_constant(c, value), OPCONSTANT, <<Len(c.constants)>>)

last_instruction_is(c, op) ==
    /\ current_instructions(c) # <<>>
    /\ current_scope(c).last_instruction.opcode = op

remove_last_pop(c) ==
    [c EXCEPT !.scopes[Len(c.scopes)] =
        [instructions |-> SubSeq(@.instructions, 1, @.last_instruction.position),
         last_instruction |-> @.previous_instruction,
         previous_instruction |-> @.previous_instruction]]

\* step 4 and step 7 of the if-expression: a trailing POP is taken back
remove_pop_if_last(c) == IF last_instruction_is(c, OPPOP) THEN remove_last_pop(c) ELSE c

replace_last_pop_with_return(c) ==
    [c EXCEPT !.scopes[Len(c.scopes)] =
        [@ EXCEPT !.instructions[@.last_instruction.position + 1] = OPRETURNVALUE,
                  !.last_instruction.opcode = OPRETURNVALUE]]

\* the offsets at which the instructions of a buffer start
RECURSIVE InstructionStartsFrom(_, _)
InstructionStartsFrom(ins, offset) ==
    IF offset >= Len(ins) THEN {}
    ELSE {offset} \cup
         InstructionStartsFrom(ins, offset + 1 + OperandWidth(ByteAt(ins, offset)))

InstructionStarts(ins) == InstructionStartsFrom(ins, 0)

\* the jump left unpatched
change_operand_not(c, position, operand) == c

\* overwrite the operand of the instruction at position
change_operand(c, position, operand) ==
    [c EXCEPT !.scopes[Len(c.scopes)].instructions =
        SubSeq(@, 1, position)
        \o instruction_init(ByteAt(@, position), <<operand>>)
        \o SubSeq(@, position + 1 + Len(instruction_init(ByteAt(@, position), <<operand>>)),
                  Len(@))]

\* patch the jump at position to the current position
patch_jump(c, position) == change_operand(c, position, current_position(c))

enter_scope(c) ==
    [c EXCEPT !.scopes = Append(@, CompilationScope),
              !.symbol_table = push_scope(@)]

leave_scope(c) ==
    [c EXCEPT !.scopes = SubSeq(@, 1, Len(@) - 1),
              !.symbol_table = pop_scope(@)]

compile_error(c, message) == [c EXCEPT !.error = message]

InfixOpcode(operator) ==
    CASE operator = <<"+">> -> OPADD
      [] operator = <<"-">> -> OPSUB
      [] operator = <<"*">> -> OPMUL
      [] operator = <<"/">> -> OPDIV
      [] operator = <<"=", "=">> -> OPEQUAL
      [] operator = <<"!", "=">> -> OPNOTEQUAL
      [] operator \in {<<">">>, <<"<">>} -> OPGREATERTHAN

RECURSIVE compile(_, _), compile_all(_, _, _)

\* the nodes of a list, compiled left to right
compile_all(c, nodes, i) ==
    IF i > Len(nodes) THEN c ELSE compile_all(compile(c, nodes[i]), nodes, i + 1)

\* the integers of the virtual machine are those of the model: the literals
\* of the programs compiled here have at most nine digits
compile_integer(c, node) == emit_constant(c, Integer(IntOf(node.value)))

compile_boolean(c, node) == emit(c, IF node.value THEN OPTRUE ELSE OPFALSE, <<>>)

compile_prefix(c, node) ==
    LET Then1(c1) == IF c1.error # NULL THEN c1
                     ELSE emit(c1, IF node.operator = <<"-">> THEN OPMINUS ELSE OPBANG, <<>>)
    IN  Then1(compile(c, node.right))

\* "<" is the swapped ">"
compile_infix(c, node) ==
    LET Then1(c1) == IF c1.error # NULL THEN c1
                     ELSE emit(c1, InfixOpcode(node.operator), <<>>)
    IN  IF node.operator = <<"<">>
        THEN Then1(compile(compile(c, node.right), node.left))
        ELSE Then1(compile(compile(c, node.left), node.right))

\* steps 5 to 8, from the compiled consequence; pJF is the offset of JMPFALSE
compile_if_alternative(c, node, pJF) ==
    LET Step8(c7, pJ) == IF c7.error # NULL THEN c7 ELSE patch_jump(c7, pJ)
        Step7(c6, pJ) ==
            IF node.alternative = NULL THEN Step8(emit(c6, OPNULL, <<>>), pJ)
            ELSE Step8(remove_pop_if_last(compile(c6, node.alternative)), pJ)
        Step6(c5) == Step7(patch_jump(c5, pJF), current_scope(c5).last_instruction.position)
    IN  IF c.error # NULL THEN c
        ELSE Step6(emit(remove_pop_if_last(c), OPJMP, <<PLACEHOLDER>>))

compile_if(c, node) ==
    LET Step3(c2) ==
            compile_if_alternative(compile(c2, node.consequence), node,
                                   current_scope(c2).last_instruction.position)
        Step2(c1) == IF c1.error # NULL THEN c1
                     ELSE Step3(emit(c1, OPJMPFALSE, <<PLACEHOLDER>>))
    IN  Step2(compile(c, node.condition))

RECURSIVE define_parameters(_, _, _)
define_parameters(table, parameters, i) ==
    IF i > Len(parameters) THEN table
    ELSE define_parameters(define(table, parameters[i].value), parameters, i + 1)

\* whether the buffer holds a RETURNVALUE instruction
HasReturnValue(ins) ==
    \E offset \in InstructionStarts(ins) : ByteAt(ins, offset) = OPRETURNVALUE

\* step 3, after the body: the function returns the value of its last statement
ensure_return(c, node) ==
    LET Append1(c1) ==
            IF HasReturnValue(current_instructions(c1)) THEN c1
            ELSE IF node.body.statements = <<>>
                 THEN emit(emit(c1, OPNULL, <<>>), OPRETURNVALUE, <<>>)
                 ELSE emit(c1, OPRETURNVALUE, <<>>)
    IN  Append1(IF last_instruction_is(c, OPPOP) THEN replace_last_pop_with_return(c) ELSE c)

\* steps 4 and 5: the function becomes a constant of the enclosing buffer
finish_function(c, node) ==
    emit_constant(leave_scope(c),
                  CompiledFunction(current_instructions(c),
                                   c.symbol_table[Len(c.symbol_table)].num_definitions,
                                   Len(node.parameters.items)))

compile_function_literal(c, node) ==
    LET Finish(c3) == IF c3.error # NULL THEN c3 ELSE finish_function(ensure_return(c3, node), node)
        Body(c1) ==
            Finish(compile([c1 EXCEPT !.symbol_table =
                                define_parameters(@, node.parameters.items, 1)],
                           node.body))
    IN  Body(enter_scope(c))

compile_call(c, node) ==
    LET Then1(c1) == IF c1.error # NULL THEN c1
                     ELSE emit(c1, OPCALL, <<Len(node.arguments.items)>>)
    IN  Then1(compile_all(compile(c, node.function), node.arguments.items, 1))

load_symbol(c, symbol) ==
    CASE symbol.scope = "GLOBAL" -> emit(c, OPGETGLOBAL, <<symbol.index>>)
      [] symbol.scope = "LOCAL" -> emit(c, OPGETLOCAL, <<symbol.index>>)
      [] symbol.scope = "BUILTIN" -> emit(c, OPGETBUILTIN, <<symbol.index>>)

compile_identifier(c, node) ==
    IF resolve(c.symbol_table, node.value) = NULL
    THEN compile_error(c, <<"undefined variable: ">> \o node.value)
    ELSE load_symbol(c, resolve(c.symbol_table, node.value))

\* define(name), compile the value, store it
compile_let(c, node) ==
    LET Store(c2, symbol) ==
            IF c2.error # NULL THEN c2
            ELSE emit(c2, IF symbol.scope = "GLOBAL" THEN OPSETGLOBAL ELSE OPSETLOCAL,
                      <<symbol.index>>)
    IN  Store(compile([c EXCEPT !.symbol_table = define(@, node.name.value)], node.value),
              defined_symbol(c.symbol_table, node.name.value))

compile_return(c, node) ==
    LET Then1(c1) == IF c1.error # NULL THEN c1 ELSE emit(c1, OPRETURNVALUE, <<>>)
    IN  IF node.return_value = NULL
        THEN Then1(emit(c, OPNULL, <<>>))
        ELSE Then1(compile(c, node.return_value))

compile_expression_statement(c, node) ==
    LET Then1(c1) == IF c1.error # NULL THEN c1 ELSE emit(c1, OPPOP, <<>>)
    IN  Then1(compile(c, node.expression))

\* compile one node into the current buffer; nothing more is compiled after an error
compile(c, node) ==
    IF c.error # NULL THEN c
    ELSE CASE node.kind \in {"Program", "Block"} -> compile_all(c, node.statements, 1)
           [] node.kind = "Let" -> compile_let(c, node)
           [] node.kind = "Return" -> compile_return(c, node)
           [] node.kind = "ExprStmt" -> compile_expression_statement(c, node)
           [] node.kind = "Int" -> compile_integer(c, node)
           [] node.kind = "Bool" -> compile_boolean(c, node)
           [] node.kind = "Prefix" -> compile_prefix(c, node)
           [] node.kind = "Infix" -> compile_infix(c, node)
           [] node.kind = "If" -> compile_if(c, node)
           [] node.kind = "FunctionLit" -> compile_function_literal(c, node)
           [] node.kind = "Call" -> compile_call(c, node)
           [] node.kind = "Ident" -> compile_identifier(c, node)

\* the bytecode of a compiled program
get_bytecode(c) == [instructions |-> c.scopes[1].instructions, constants |-> c.constants]

(***************************************************************************)
(* Virtual machine (spec 4.5)                                              *)
(***************************************************************************)
\* slots of the value stack
STACK_SIZE == 8

\* frames of the frame stack
MAX_FRAMES == 3

\* slots of the globals vector
GLOBALS_SIZE == 4

\* memory in front of the value stack that a negative index falls into
SlotsBelow == 2

StackSlots == (0 - SlotsBelow)..(STACK_SIZE - 1)

\* what a read of a slot nothing was stored in may deliver
Garbage == {Uninitialized, Null}

\* call records, for the properties, sp and frame index as the CALL found them
Frame(fn, base_pointer, call) ==
    [fn |-> fn, ip |-> 0, base_pointer |-> base_pointer, call |-> call]

CallRecord(v, n) == [sp |-> v.sp, nargs |-> n, frame_index |-> Len(v.frames)]

\* the step just executed, kept for the properties
NoStep == [op |-> 0, operand |-> 0, sp |-> 0, frame_index |-> 0, callee |-> NULL,
           returned |-> NULL, dipped |-> FALSE, unset_read |-> FALSE, below |-> FALSE]

vm_init(bytecode) ==
    [constants |-> bytecode.constants,
     stack |-> [i \in StackSlots |-> Uninitialized],
     sp |-> 0,
     frames |-> <<Frame(CompiledFunction(bytecode.instructions, 0, 0), 0, NULL)>>,
     globals |-> [i \in 0..(GLOBALS_SIZE - 1) |-> Uninitialized],
     last_popped |-> Null,
     error |-> NULL,
     status |-> "running",
     last |-> NoStep]

frame_index(v) == Len(v.frames)

current_frame(v) == v.frames[Len(v.frames)]

\* the first slot above the parameters and locals of the current frame
FrameFloor(v) == current_frame(v).base_pointer + current_frame(v).fn.num_locals

stop(v, status) == [v EXCEPT !.status = status]

InStack(i) == i \in StackSlots

vm_push(v, value) ==
    IF v.status # "running" THEN v
    ELSE IF v.sp >= STACK_SIZE THEN stop(v, "capped")
    ELSE [v EXCEPT !.stack[v.sp] = value, !.sp = @ + 1, !.last.below = @ \/ v.sp < 0]

\* the value a pop delivers
vm_top(v) == IF InStack(v.sp - 1) THEN v.stack[v.sp - 1] ELSE Uninitialized

\* sp decremented by one; the discarded value is retained
vm_pop(v) ==
    IF v.status # "running" THEN v
    ELSE IF ~InStack(v.sp - 1) THEN stop(v, "crashed")
    ELSE [v EXCEPT !.sp = @ - 1,
                   !.last_popped = v.stack[v.sp - 1],
                   !.last.below = @ \/ v.sp - 1 < 0,
                   !.last.dipped = @ \/ v.sp - 1 < FrameFloor(v)]

\* a runtime error: the Error value is pushed and the loop is left
vm_abort(v, message) ==
    IF v.status # "running" THEN v
    ELSE [vm_push(v, Error(message)) EXCEPT !.error = message, !.status = "aborted"]

type_name(value) == <<value.type>>

inspect(value) ==
    CASE value.type = "INTEGER" -> long_to_string(Long(value.value))
      [] value.type = "BOOLEAN" -> IF value.value THEN <<"true">> ELSE <<"false">>
      [] value.type = "NULL" -> <<"null">>
      [] OTHER -> type_name(value)

\* an object pointer of unknown content cannot be looked into
Unusable(value) == value.type = "UNINITIALIZED"

\* structural equality of two values
SameValue(left, right) == left.type = right.type /\ left = right

OperatorText(op) == <<opcode_definition_lookup(op).desc>>

binary_result(op, left, right) ==
    CASE op = OPEQUAL -> Boolean(SameValue(left, right))
      [] op = OPNOTEQUAL -> Boolean(~SameValue(left, right))
      [] left.type = "INTEGER" /\ right.type = "INTEGER" ->
            (CASE op = OPADD -> Integer(left.value + right.value)
               [] op = OPSUB -> Integer(left.value - right.value)
               [] op = OPMUL -> Integer(left.value * right.value)
               [] op = OPDIV -> Integer(left.value \div right.value)
               [] op = OPGREATERTHAN -> Boolean(left.value > right.value))
      [] left.type # right.type ->
            Error(<<"type mismatch: ">> \o type_name(left) \o <<" ">> \o OperatorText(op)
                  \o <<" ">> \o type_name(right))
      [] OTHER ->
            Error(<<"unknown operator: ">> \o type_name(left) \o <<" ">> \o OperatorText(op)
                  \o <<" ">> \o type_name(right))

\* push the result of an operation, or abort with the error it yielded
push_result(v, result) ==
    IF result.type = "ERROR" THEN vm_abort(v, result.message) ELSE vm_push(v, result)

\* pop right, pop left, push the result
execute_binary_operation(v, op) ==
    LET Apply(v2, left, right) ==
            IF v2.status # "running" THEN v2
            ELSE IF Unusable(left) \/ Unusable(right) THEN stop(v2, "crashed")
            ELSE IF op = OPDIV /\ right = Integer(0) THEN stop(v2, "crashed")
            ELSE push_result(v2, binary_result(op, left, right))
        PopLeft(v1, right) == Apply(vm_pop(v1), vm_top(v1), right)
    IN  PopLeft(vm_pop(v), vm_top(v))

execute_minus(v) ==
    LET Apply(v1, operand) ==
            IF v1.status # "running" THEN v1
            ELSE IF Unusable(operand) THEN stop(v1, "crashed")
            ELSE IF operand.type = "INTEGER" THEN vm_push(v1, Integer(0 - operand.value))
            ELSE vm_abort(v1, <<"unknown operator: -">> \o type_name(operand))
    IN  Apply(vm_pop(v), vm_top(v))

\* False and Null are falsy, every other value is truthy
is_truthy(value) == ~(value.type = "NULL" \/ (value.type = "BOOLEAN" /\ ~value.value))

execute_bang(v) ==
    LET Apply(v1, operand) ==
            IF v1.status # "running" THEN v1
            ELSE IF Unusable(operand) THEN stop(v1, "crashed")
            ELSE vm_push(v1, Boolean(~is_truthy(operand)))
    IN  Apply(vm_pop(v), vm_top(v))

set_ip(v, target) == [v EXCEPT !.frames[Len(v.frames)].ip = target]

execute_jmpfalse(v, target) ==
    LET Apply(v1, condition) ==
            IF v1.status # "running" THEN v1
            ELSE IF Unusable(condition) THEN stop(v1, "crashed")
            ELSE IF is_truthy(condition) THEN v1 ELSE set_ip(v1, target)
    IN  Apply(vm_pop(v), vm_top(v))

\* the value a read delivers: an unset slot delivers garbage
Delivered(value, garbage) == IF Unusable(value) THEN garbage ELSE value

execute_setglobal(v, index) ==
    LET Apply(v1, value) ==
            IF v1.status # "running" THEN v1
            ELSE IF index >= GLOBALS_SIZE THEN stop(v1, "capped")
            ELSE [v1 EXCEPT !.globals[index] = value]
    IN  Apply(vm_pop(v), vm_top(v))

execute_getglobal(v, index, garbage) ==
    IF index >= GLOBALS_SIZE THEN stop(v, "capped")
    ELSE vm_push([v EXCEPT !.last.unset_read = Unusable(v.globals[index])],
                 Delivered(v.globals[index], garbage))

execute_setlocal(v, index) ==
    LET Apply(v1, value) ==
            IF v1.status # "running" THEN v1
            ELSE IF ~InStack(current_frame(v1).base_pointer + index) THEN stop(v1, "capped")
            ELSE [v1 EXCEPT !.stack[current_frame(v1).base_pointer + index] = value]
    IN  Apply(vm_pop(v), vm_top(v))

execute_getlocal(v, index, garbage) ==
    IF ~InStack(current_frame(v).base_pointer + index) THEN stop(v, "capped")
    ELSE vm_push(v, Delivered(v.stack[current_frame(v).base_pointer + index], garbage))

\* the frame of a compiled function over its n arguments
call_function_unchecked(v, fn, n) ==
    IF frame_index(v) >= MAX_FRAMES \/ v.sp - n + fn.num_locals > STACK_SIZE
    THEN stop(v, "capped")
    ELSE [v EXCEPT !.frames = Append(@, Frame(fn, v.sp - n, CallRecord(v, n))),
                   !.sp = v.sp - n + fn.num_locals]

\* the frame of a compiled function over its n arguments, which must be as
\* many as its parameters
call_function(v, fn, n) ==
    IF n # fn.num_parameters
    THEN vm_abort(v, <<"wrong number of arguments: want=">>
                     \o long_to_string(Long(fn.num_parameters))
                     \o <<" got=">> \o long_to_string(Long(n)))
    ELSE IF frame_index(v) >= MAX_FRAMES \/ v.sp - n + fn.num_locals > STACK_SIZE
    THEN stop(v, "capped")
    ELSE [v EXCEPT !.frames = Append(@, Frame(fn, v.sp - n, CallRecord(v, n))),
                   !.sp = v.sp - n + fn.num_locals]

\* the host functions on the values of this model: only puts accepts them
builtin_result(fn_id, args) ==
    IF builtins[fn_id + 1] = <<"p", "u", "t", "s">> THEN Null
    ELSE IF args = <<>> THEN Error(<<"wrong number of arguments">>)
    ELSE Error(<<"argument to ">> \o builtins[fn_id + 1] \o <<" not supported, got ">>
               \o type_name(args[1]))

\* the callee and its arguments are popped, then the result pushed
call_builtin(v, callee, n) ==
    push_result([v EXCEPT !.sp = v.sp - n - 1],
                builtin_result(callee.fn_id, [i \in 1..n |-> v.stack[v.sp - n - 1 + i]]))

execute_call(v, n) ==
    LET Apply(v1, callee) ==
            IF Unusable(callee) THEN stop(v1, "crashed")
            ELSE CASE callee.type = "COMPILED_FUNCTION" -> call_function(v1, callee, n)
                   [] callee.type = "BUILTIN" -> call_builtin(v1, callee, n)
                   [] OTHER -> vm_abort(v1, <<"not a function: ">> \o inspect(callee))
    IN  IF ~InStack(v.sp - n - 1) THEN stop(v, "crashed")
        ELSE Apply([v EXCEPT !.last.callee = v.stack[v.sp - n - 1],
                             !.last.below = @ \/ v.sp - n - 1 < 0],
                   v.stack[v.sp - n - 1])

\* sp <- base_pointer, which leaves the callee on the stack
return_from_keeping_callee(v, frame, result) ==
    IF v.status # "running" THEN v
    ELSE IF frame_index(v) = 0 THEN stop(v, "halted")
    ELSE vm_push([v EXCEPT !.sp = frame.base_pointer], result)

\* the frame is discarded, the callee and its arguments too, the result pushed;
\* a return of the outermost frame ends the run with the value as last popped
return_from(v, frame, result) ==
    IF v.status # "running" THEN v
    ELSE IF frame_index(v) = 0 THEN stop(v, "halted")
    ELSE vm_push([v EXCEPT !.sp = frame.base_pointer - 1], result)

discard_frame(v) ==
    IF v.status # "running" THEN v
    ELSE [v EXCEPT !.frames = SubSeq(@, 1, Len(@) - 1),
                   !.last.returned = current_frame(v)]

execute_returnvalue(v) ==
    LET Apply(v1, result) == return_from(discard_frame(v1), current_frame(v), result)
    IN  Apply(vm_pop(v), vm_top(v))

execute_return(v) == return_from(discard_frame(v), current_frame(v), Null)

execute_constant(v, index) == vm_push(v, v.constants[index + 1])

\* the instruction with its operand, the ip already advanced
execute(v, op, operand, garbage) ==
    CASE op = OPCONSTANT -> execute_constant(v, operand)
      [] op \in {OPADD, OPSUB, OPMUL, OPDIV, OPEQUAL, OPNOTEQUAL, OPGREATERTHAN} ->
            execute_binary_operation(v, op)
      [] op = OPPOP -> vm_pop(v)
      [] op = OPTRUE -> vm_push(v, Boolean(TRUE))
      [] op = OPFALSE -> vm_push(v, Boolean(FALSE))
      [] op = OPNULL -> vm_push(v, Null)
      [] op = OPMINUS -> execute_minus(v)
      [] op = OPBANG -> execute_bang(v)
      [] op = OPJMPFALSE -> execute_jmpfalse(v, operand)
      [] op = OPJMP -> set_ip(v, operand)
      [] op = OPSETGLOBAL -> execute_setglobal(v, operand)
      [] op = OPGETGLOBAL -> execute_getglobal(v, operand, garbage)
      [] op = OPSETLOCAL -> execute_setlocal(v, operand)
      [] op = OPGETLOCAL -> execute_getlocal(v, operand, garbage)
      [] op = OPGETBUILTIN -> vm_push(v, Builtin(operand))
      [] op = OPCALL -> execute_call(v, operand)
      [] op = OPRETURNVALUE -> execute_returnvalue(v)
      [] op = OPRETURN -> execute_return(v)
      [] OTHER -> stop(v, "crashed")

\* whether the loop goes on: it ends when the ip of the outermost frame is at the end
ip_at_end(v) == current_frame(v).ip >= Len(current_frame(v).fn.instructions)

loop_test(v) ==
    IF v.status # "running" \/ ~ip_at_end(v) THEN v
    ELSE IF frame_index(v) = 1 THEN stop(v, "halted")
    ELSE stop(v, "crashed")

\* read the opcode at ip, advance ip over the instruction
fetch(v, op) ==
    [v EXCEPT !.frames[Len(v.frames)].ip = @ + 1 + OperandWidth(op),
              !.last = [NoStep EXCEPT !.op = op,
                                      !.operand = OperandAt(current_frame(v).fn.instructions,
                                                            current_frame(v).ip),
                                      !.sp = v.sp,
                                      !.frame_index = frame_index(v)]]

\* one iteration of the fetch-decode-execute loop
vm_step(v, garbage) ==
    LET Execute(v1) == loop_test(execute(v1, v1.last.op, v1.last.operand, garbage))
    IN  Execute(fetch(v, ByteAt(current_frame(v).fn.instructions, current_frame(v).ip)))

(***************************************************************************)
(* The pipeline: parse, compile, run.  The compiler is not invoked when    *)
(* the parser recorded an error.                                           *)
(***************************************************************************)
Compile ==
    /\ pc = "parsed"
    /\ parser.errors = <<>>
    /\ \E c \in {compile(compiler_init, program)} :
           /\ compiler' = c
           /\ pc' = IF c.error # NULL THEN "compile_error" ELSE "compiled"
    /\ UNCHANGED <<parservars, vm, utilvars>>

VMStart ==
    /\ pc = "compiled"
    /\ vm' = loop_test(vm_init(get_bytecode(compiler)))
    /\ pc' = vm'.status
    /\ UNCHANGED <<parservars, compiler, utilvars>>

\* one instruction; an access in front of the stack and a read of an unset
\* slot are undefined: the step may fault, and the read delivers garbage
VMStep ==
    /\ pc = "running"
    /\ \E garbage \in Garbage, fault \in BOOLEAN :
           \E r \in {vm_step(vm, garbage)} :
               /\ fault => r.last.below
               /\ vm' = IF fault THEN stop(r, "crashed") ELSE r
    /\ pc' = vm'.status
    /\ UNCHANGED <<parservars, compiler, utilvars>>

NextVM == ParseProgram \/ Compile \/ VMStart \/ VMStep

(***************************************************************************)
(* Programs for the pipeline                                               *)
(***************************************************************************)
tID(name) == Tok("IDENT", name)

tNUM(digits) == Tok("INT", digits)

Braces(block) == <<tLBRACE>> \o block \o <<tRBRACE>>

Parens(items) == <<tLPAREN>> \o items \o <<tRPAREN>>

VAtoms(names) == {<<tINT("1")>>, <<tTRUE>>} \cup {<<tIDENT(n)>> : n \in names}

\* the statements a block is made of
Stmts(e) ==
    {e, <<tLET, tIDENT("b"), tASSIGN>> \o e \o <<tSEMICOLON>>, <<tRETURN>> \o e \o <<tSEMICOLON>>}

\* blocks: empty, a value, ending in let, returning
VBlocks(names) == {<<>>} \cup UNION {Stmts(e) : e \in VAtoms(names)}

\* function bodies also use a local and branch on a parameter
VBodies(names) ==
    VBlocks(names)
    \cup {<<tLET, tIDENT("b"), tASSIGN, tINT("1"), tSEMICOLON, tIDENT("b")>>}
    \cup {<<tIF>> \o Parens(<<tIDENT("x")>>) \o Braces(b) : b \in Stmts(<<tINT("1")>>)}
    \cup {<<tIF>> \o Parens(<<tIDENT("x")>>) \o Braces(<<>>) \o <<tELSE>>
              \o Braces(<<tIDENT("x")>>)}

VArgs == {<<>>, <<tINT("1")>>, <<tINT("1"), tCOMMA, tTRUE>>}

VFunctions ==
    {<<tFUNCTION>> \o Parens(ps) \o Braces(b) :
        ps \in {<<>>, <<tIDENT("x")>>}, b \in VBodies({"a", "x"})}

VExprs ==
    VAtoms({"a"})
    \cup {<<op>> \o e : op \in {tBANG, tMINUS}, e \in VAtoms({"a"})}
    \cup {l \o <<op>> \o r : l \in {<<tINT("1")>>, <<tIDENT("a")>>},
                            op \in {tPLUS, tLT, tEQ}, r \in {<<tINT("1")>>, <<tTRUE>>}}
    \cup {<<tIF>> \o Parens(c) \o Braces(b) :
            c \in {<<tTRUE>>, <<tFALSE>>, <<tIDENT("a")>>}, b \in VBlocks({"a"})}
    \cup {<<tIF>> \o Parens(c) \o Braces(b) \o <<tELSE>> \o Braces(e) :
            c \in {<<tTRUE>>, <<tFALSE>>}, b \in VBlocks({"a"}),
            e \in {<<>>, <<tINT("1")>>, <<tLET, tIDENT("b"), tASSIGN, tINT("1"), tSEMICOLON>>}}
    \cup VFunctions
    \cup {f \o Parens(as) : f \in VFunctions, as \in VArgs}
    \cup {<<tIDENT("a")>> \o Parens(as) : as \in VArgs}
    \cup {<<tID(builtins[i])>> \o Parens(<<tINT("1")>>) : i \in {1, 6}}

VStmts ==
    UNION {{<<tLET, tIDENT("a"), tASSIGN>> \o e \o <<tSEMICOLON>>,
            e \o <<tSEMICOLON>>,
            <<tRETURN>> \o e \o <<tSEMICOLON>>} : e \in VExprs}

\* first statements that give the global a a value
VPreludes ==
    {<<tLET, tIDENT("a"), tASSIGN>> \o e \o <<tSEMICOLON>> :
        e \in {<<tINT("1")>>,
               <<tFUNCTION>> \o Parens(<<tIDENT("x")>>) \o Braces(<<tIDENT("x")>>),
               <<tFUNCTION>> \o Parens(<<>>) \o Braces(<<tIDENT("a")>> \o Parens(<<>>)),
               <<tFUNCTION>> \o Parens(<<tIDENT("x")>>)
                   \o Braces(<<tIF>> \o Parens(<<tIDENT("x")>>) \o Braces(<<tINT("1")>>)),
               <<tFUNCTION>> \o Parens(<<>>)
                   \o Braces(<<tLET, tIDENT("b"), tASSIGN, tINT("1"), tSEMICOLON>>)}}

\* the seed scenarios of the specification that use no string, array or hash
SeedPrograms ==
    { <<tINT("1"), tPLUS, tINT("2"), tASTERISK, tINT("3")>>,
      <<tLET, tIDENT("a"), tASSIGN, tINT("5"), tSEMICOLON,
        tLET, tIDENT("b"), tASSIGN, tIDENT("a"), tASTERISK, tINT("2"), tSEMICOLON,
        tIDENT("b"), tPLUS, tINT("1")>>,
      <<tIF>> \o Parens(<<tNUM(<<"1", "0">>), tGT, tINT("1")>>)
          \o Braces(<<tIF>> \o Parens(<<tNUM(<<"1", "0">>), tGT, tINT("1")>>)
                        \o Braces(<<tRETURN, tNUM(<<"1", "0">>), tSEMICOLON>>)
                        \o <<tRETURN, tINT("1"), tSEMICOLON>>),
      <<tLET, tID(<<"a", "d", "d">>), tASSIGN, tFUNCTION>>
          \o Parens(<<tIDENT("a"), tCOMMA, tIDENT("b")>>)
          \o Braces(<<tIDENT("a"), tPLUS, tIDENT("b")>>)
          \o <<tSEMICOLON, tID(<<"a", "d", "d">>)>>
          \o Parens(<<tINT("2"), tCOMMA, tID(<<"a", "d", "d">>)>>
                    \o Parens(<<tINT("3"), tCOMMA, tINT("4")>>)),
      <<tBANG, tBANG, tINT("5")>>,
      <<tFUNCTION>> \o Parens(<<>>) \o Braces(<<>>) \o Parens(<<>>),
      <<tINT("5"), tPLUS, tTRUE>>,
      <<tID(<<"f", "o", "o", "b", "a", "r">>)>>,
      <<tFUNCTION>> \o Parens(<<tIDENT("x")>>) \o Braces(<<tIDENT("x")>>)
          \o Parens(<<tINT("1"), tCOMMA, tINT("2")>>) }

VMInputs ==
    VStmts \cup {p \o e : p \in VPreludes, e \in VExprs} \cup SeedPrograms

InitVM == InitWith(VMInputs)

SpecVM == InitVM /\ [][NextVM]_vars

(***************************************************************************)
(* Hash table (cmonkey_utils.c): buckets are lists of entries              *)
(***************************************************************************)
\* the number of buckets of a new table
INITIAL_HASHTABLE_SIZE == 64

\* the character codes of the characters keys are made of
CharCode(c) ==
    CASE c = "!" -> 33
      [] c = "a" -> 97

RECURSIVE string_hash_from(_, _, _)
\* while ((c = *str++)) hash = ((hash << 5) + hash) + c; keys are short
\* enough for the hash not to wrap
string_hash_from(str, i, hash) ==
    IF i > Len(str) THEN hash
    ELSE string_hash_from(str, i + 1, ((hash * 32) + hash) + CharCode(str[i]))

string_hash_function(key) == string_hash_from(key, 1, 5381)

string_keycmp(key1, key2) == key1 = key2

cm_list_init == List(<<>>)

cm_hash_table_init(hash_func, keycmp, free_key, free_value) ==
    [hash_func |-> hash_func, keycmp |-> keycmp,
     free_key |-> free_key, free_value |-> free_value,
     table_size |-> INITIAL_HASHTABLE_SIZE,
     table |-> [i \in 0..(INITIAL_HASHTABLE_SIZE - 1) |-> NULL],
     nentries |-> 0, nkeys |-> 0]

\* hash_table->hash_func(key)
CallHashFunc(t, key) ==
    CASE t.hash_func = "string_hash_function" -> string_hash_function(key)

\* hash_table->keycmp(key1, key2)
CallKeycmp(t, key1, key2) ==
    CASE t.keycmp = "string_keycmp" -> string_keycmp(key1, key2)

BucketIndex(t, key) == CallHashFunc(t, key) % t.table_size

\* every put counts a used bucket
cm_hash_table_put_counting(t, key, value) ==
    [t EXCEPT !.table[BucketIndex(t, key)] =
                  cm_list_add(IF @ = NULL THEN cm_list_init ELSE @,
                              [key |-> key, value |-> value]),
              !.nentries = @ + 1,
              !.nkeys = @ + 1]

cm_hash_table_put(t, key, value) ==
    LET index == BucketIndex(t, key)
        entry == [key |-> key, value |-> value]
    IN  IF t.table[index] = NULL
        THEN [t EXCEPT !.table[index] = cm_list_add(cm_list_init, entry),
                       !.nentries = @ + 1,
                       !.nkeys = @ + 1]
        ELSE [t EXCEPT !.table[index] = cm_list_add(@, entry),
                       !.nkeys = @ + 1]

\* the value of the entry at the head of the bucket, whatever its key
cm_hash_table_get_head(t, key) ==
    IF t.table[BucketIndex(t, key)] = NULL THEN NULL
    ELSE t.table[BucketIndex(t, key)].items[1].value

\* the value of the first entry of the bucket whose key compares equal
cm_hash_table_get(t, key) ==
    LET entry_list == t.table[BucketIndex(t, key)]
        hits == IF entry_list = NULL THEN {}
                ELSE {i \in DOMAIN entry_list.items :
                          CallKeycmp(t, entry_list.items[i].key, key)}
    IN  IF hits = {} THEN NULL
        ELSE entry_list.items[CHOOSE i \in hits : \A j \in hits : i <= j].value

\* What cm_hash_table_free releases, in order.  A block of the heap is named
\* by what it is, the bucket it belongs to and its place in the bucket's
\* list (0 where there is none).
RECURSIVE free_entries(_, _, _), free_buckets(_, _)
\* the loop of free_entry_list over the nodes of a bucket's list: the key and
\* the value go to the table's callbacks where these are set, then the entry
\* and the node are freed
free_entries(table, index, place) ==
    IF place > Len(table.table[index].items) THEN <<>>
    ELSE (IF table.free_key # "NULL" THEN <<<<"key", index, place>>>> ELSE <<>>)
             \o (IF table.free_value # "NULL" THEN <<<<"value", index, place>>>> ELSE <<>>)
             \o <<<<"entry", index, place>>, <<"node", index, place>>>>
             \o free_entries(table, index, place + 1)

free_entry_list(table, index) ==
    free_entries(table, index, 1) \o <<<<"list", index, 0>>>>

\* the loop of cm_hash_table_free over the buckets, which skips the empty ones
free_buckets(table, index) ==
    IF index >= table.table_size THEN <<>>
    ELSE (IF table.table[index] # NULL THEN free_entry_list(table, index) ELSE <<>>)
             \o free_buckets(table, index + 1)

cm_hash_table_free(table) ==
    free_buckets(table, 0) \o <<<<"buckets", 0, 0>>, <<"table", 0, 0>>>>

(***************************************************************************)
(* Drivers of the utilities                                                *)
(***************************************************************************)
\* keys are made of two characters whose codes differ by the table size
KeyChars == {"a", "!"}

MaxKeyLen == 2

Keys == SeqsUpTo(KeyChars, MaxKeyLen) \ {<<>>}

TableValues == {<<"v", "1">>, <<"v", "2">>}

MaxPuts == 3

\* the callbacks a table is created with: none, or free of the C library
FreeFunctions == {"NULL", "free"}

HashPut ==
    /\ pc = "hash"
    /\ Len(hash_table.puts) < MaxPuts
    /\ \E key \in Keys, value \in TableValues :
           hash_table' = [hash_table EXCEPT
                             !.t = cm_hash_table_put(hash_table.t, key, value),
                             !.puts = Append(hash_table.puts, [key |-> key, value |-> value]),
                             !.got = NULL]
    /\ UNCHANGED <<parservars, pc, vmvars, codec, opcode, number, linked_list>>

HashGet ==
    /\ pc = "hash"
    /\ \E key \in Keys :
           hash_table' = [hash_table EXCEPT
                             !.got = [key |-> key,
                                      value |-> cm_hash_table_get(hash_table.t, key)]]
    /\ UNCHANGED <<parservars, pc, vmvars, codec, opcode, number, linked_list>>

\* cm_hash_table_free(table) ends the life of the table
HashFree ==
    /\ pc = "hash"
    /\ hash_table' = [hash_table EXCEPT !.released = cm_hash_table_free(hash_table.t)]
    /\ pc' = "hash_freed"
    /\ UNCHANGED <<parservars, vmvars, codec, opcode, number, linked_list>>

NextHash == HashPut \/ HashGet \/ HashFree

InitUtil(where) ==
    /\ input = <<>>
    /\ parser = parser_init(lexer_init(input))
    /\ program = NULL
    /\ text = NullStr
    /\ reparsed = NULL
    /\ pc = where
    /\ compiler = NULL
    /\ vm = NULL
    /\ where # "opcode" => opcode = NULL
    /\ where # "number" => number = NULL
    /\ where # "linked_list" => linked_list = NULL

InitHash ==
    /\ InitUtil("hash")
    /\ \E free_key \in FreeFunctions, free_value \in FreeFunctions :
           hash_table = [t |-> cm_hash_table_init("string_hash_function", "string_keycmp",
                                                  free_key, free_value),
                         puts |-> <<>>, got |-> NULL, released |-> <<>>]
    /\ codec = NULL

SpecHash == InitHash /\ [][NextHash]_vars

\* the operands the codec test runs over
OPERAND_LIMIT == 65536

CodecEncode ==
    /\ pc = "codec"
    /\ codec.phase = "value"
    /\ codec' = [codec EXCEPT !.bytes = size_t_to_uint8_be(codec.value, 2),
                              !.phase = "encoded"]
    /\ UNCHANGED <<parservars, pc, vmvars, hash_table, opcode, number, linked_list>>

CodecDecode ==
    /\ pc = "codec"
    /\ codec.phase = "encoded"
    /\ codec' = [codec EXCEPT !.decoded = be_to_size_t(codec.bytes, 2),
                              !.phase = "decoded"]
    /\ UNCHANGED <<parservars, pc, vmvars, hash_table, opcode, number, linked_list>>

NextCodec == CodecEncode \/ CodecDecode

InitCodec ==
    /\ InitUtil("codec")
    /\ hash_table = NULL
    /\ codec \in {[value |-> i, bytes |-> <<>>, decoded |-> 0, phase |-> "value"]
                  : i \in 0..(OPERAND_LIMIT - 1)}

SpecCodec == InitCodec /\ [][NextCodec]_vars

(***************************************************************************)
(* Driver of the opcode table                                              *)
(***************************************************************************)
\* the opcodes of opcode_t, first to last
Opcodes == OPCONSTANT..OPGETBUILTIN

\* operands handed to instruction_init
OperandSamples == {0, 1, 255, 256, 65535}

\* the operand fits the width of the opcode's operand
Fits(operand, width) ==
    CASE width = 0 -> TRUE
      [] width = 1 -> operand < 256
      [] width = 2 -> operand < 65536

OpLookup ==
    /\ pc = "opcode"
    /\ opcode.phase = "op"
    /\ opcode' = [opcode EXCEPT !.phase = "looked_up",
                                !.def = opcode_definition_lookup(opcode.op)]
    /\ UNCHANGED <<parservars, pc, vmvars, hash_table, codec, number, linked_list>>

OpEncode ==
    /\ pc = "opcode"
    /\ opcode.phase = "looked_up"
    /\ Fits(opcode.operand, opcode.def.operand_widths[1])
    /\ opcode' = [opcode EXCEPT
                     !.phase = "encoded",
                     !.ins = instruction_init(opcode.op,
                                 IF opcode.def.operand_widths[1] = 0 THEN <<>>
                                 ELSE <<opcode.operand>>)]
    /\ UNCHANGED <<parservars, pc, vmvars, hash_table, codec, number, linked_list>>

NextOpcode == OpLookup \/ OpEncode

InitOpcode ==
    /\ InitUtil("opcode")
    /\ hash_table = NULL
    /\ codec = NULL
    /\ \E op \in Opcodes, operand \in OperandSamples :
           opcode = [op |-> op, operand |-> operand, phase |-> "op",
                     def |-> OpDef("", "", 0), ins |-> <<>>]

SpecOpcode == InitOpcode /\ [][NextOpcode]_vars

(***************************************************************************)
(* Driver of long_to_string                                                *)
(***************************************************************************)
\* the longs around zero
NearZero == 120

\* longs of every length, on both sides of the ends of the limbs and of the
\* 32-bit range, the least and the greatest among them
Longs ==
    {Long(n) : n \in (-NearZero..NearZero)
                       \cup {999, 1000, -999, -1000, 65535, -65536, 999999999,
                             1000000000, -1000000000, 1234567890, -1234567890,
                             2147483647, -2147483647}}
        \cup {Lng(neg, 0, 2, lo) : neg \in BOOLEAN, lo \in {147483648, 147483649}}
        \cup {Lng(neg, 0, 999999999, 999999999) : neg \in BOOLEAN}
        \cup {Lng(neg, 1, 0, 0) : neg \in BOOLEAN}
        \cup {Lng(neg, 1, 0, 10) : neg \in BOOLEAN}
        \cup {Lng(neg, 9, 223372036, 854775806) : neg \in BOOLEAN}
        \cup {LONG_MAX, negated(LONG_MAX), LONG_MIN}

CalculateStringSize ==
    /\ pc = "number"
    /\ number.phase = "long"
    /\ \E overflow \in Overflow :
           number' = IF Trapped(number.l, overflow)
                     THEN [number EXCEPT !.phase = "crashed"]
                     ELSE [number EXCEPT !.phase = "sized",
                                         !.size = calculate_string_size(number.l)]
    /\ UNCHANGED <<parservars, pc, vmvars, hash_table, codec, opcode, linked_list>>

LongToString ==
    /\ pc = "number"
    /\ number.phase = "sized"
    /\ \E overflow \in Overflow :
           number' = IF Trapped(number.l, overflow)
                     THEN [number EXCEPT !.phase = "crashed"]
                     ELSE [number EXCEPT !.phase = "text",
                                         !.str = long_to_string(number.l)]
    /\ UNCHANGED <<parservars, pc, vmvars, hash_table, codec, opcode, linked_list>>

NextNumber == CalculateStringSize \/ LongToString

InitNumber ==
    /\ InitUtil("number")
    /\ hash_table = NULL
    /\ codec = NULL
    /\ \E l \in Longs : number = [l |-> l, phase |-> "long", size |-> 0, str |-> <<>>]

SpecNumber == InitNumber /\ [][NextNumber]_vars

(***************************************************************************)
(* Inputs: function literals, if-expressions and calls, complete and cut   *)
(* short, with parameter and argument lists of any tokens                  *)
(***************************************************************************)
MaxItems == 3

\* what stands between the parentheses of a function literal or of a call
ListTokens == {tIDENT("a"), tINT("1"), tCOMMA}

ItemLists == SeqsUpTo(ListTokens, MaxItems)

\* a block, closed or cut short
BlockForms ==
    {<<>>, <<tLBRACE>>, <<tLBRACE, tRBRACE>>, <<tLBRACE, tIDENT("b")>>,
     <<tLBRACE, tIDENT("b"), tRBRACE>>, <<tLBRACE, tLET, tIDENT("b"), tASSIGN, tINT("1")>>}

FunctionForms ==
    {<<tFUNCTION, tLPAREN>> \o items \o close \o block :
         items \in ItemLists, close \in {<<>>, <<tRPAREN>>}, block \in BlockForms}

IfForms ==
    {<<tIF, tLPAREN, tIDENT("a"), tRPAREN>> \o block \o alternative :
         block \in BlockForms,
         alternative \in {<<>>} \cup {<<tELSE>> \o b : b \in BlockForms}}

CallForms ==
    {<<tIDENT("f"), tLPAREN>> \o items \o close :
         items \in ItemLists, close \in {<<>>, <<tRPAREN>>, <<tRPAREN, tSEMICOLON>>}}

FormInputs == FunctionForms \cup IfForms \cup CallForms

InitForms == InitWith(FormInputs)

SpecForms == InitForms /\ [][Next]_vars

\* the driver calls parse_program on the parser it created: weak fairness of
\* ParseProgram, which is enabled exactly while pc = "init"
ParseProgramIsCalled == []<>(pc # "init") \/ []<><<ParseProgram>>_vars

SpecFormsFair == SpecForms /\ ParseProgramIsCalled

(***************************************************************************)
(* cm_list at the level of its nodes (cmonkey_utils.c: cm_list_init,       *)
(* cm_list_add).  A pointer is the position of a node in the heap, 0 the   *)
(* null pointer; List and cm_list_add above are the same list seen as the  *)
(* sequence of its data.                                                   *)
(***************************************************************************)
NullPointer == 0

\* malloc(sizeof(*node)): the heap with one more node and its address, or the
\* null pointer
malloc(heap, succeeds) ==
    IF succeeds
    THEN [heap |-> Append(heap, [data |-> <<>>, next |-> NullPointer]), node |-> Len(heap) + 1]
    ELSE [heap |-> heap, node |-> NullPointer]

cm_list_init_nodes == [head |-> NullPointer, tail |-> NullPointer, length |-> 0]

\* [ret, list, heap]; the tail pointer is left where it was
cm_list_add_nodes_keeping_tail(list, heap, data, succeeds) ==
    LET m == malloc(heap, succeeds)
        node == m.node
        h1 == [m.heap EXCEPT ![node] = [data |-> data, next |-> NullPointer]]
    IN  IF node = NullPointer THEN [ret |-> 0, list |-> list, heap |-> heap]
        ELSE IF list.head = NullPointer
        THEN [ret |-> 1, heap |-> h1,
              list |-> [head |-> node, tail |-> node, length |-> list.length + 1]]
        ELSE [ret |-> 1, heap |-> [h1 EXCEPT ![list.tail].next = node],
              list |-> [list EXCEPT !.length = @ + 1]]

\* [ret, list, heap]
cm_list_add_nodes(list, heap, data, succeeds) ==
    LET m == malloc(heap, succeeds)
        node == m.node
        h1 == [m.heap EXCEPT ![node] = [data |-> data, next |-> NullPointer]]
    IN  IF node = NullPointer THEN [ret |-> 0, list |-> list, heap |-> heap]
        ELSE IF list.head = NullPointer
        THEN [ret |-> 1, heap |-> h1,
              list |-> [head |-> node, tail |-> node, length |-> list.length + 1]]
        ELSE [ret |-> 1, heap |-> [h1 EXCEPT ![list.tail].next = node],
              list |-> [list EXCEPT !.tail = node, !.length = @ + 1]]

MaxAdds == 5

\* the data of the nodes
ListValues == {<<"first">>, <<"second">>}

LinkedListAdd ==
    /\ pc = "linked_list"
    /\ linked_list.ncalls < MaxAdds
    /\ \E data \in ListValues, succeeds \in BOOLEAN :
           \E r \in {cm_list_add_nodes(linked_list.list, linked_list.heap, data, succeeds)} :
               linked_list' =
                   [list |-> r.list, heap |-> r.heap,
                    ncalls |-> linked_list.ncalls + 1,
                    added |-> IF r.ret = 1 THEN cm_list_add(linked_list.added, data)
                              ELSE linked_list.added,
                    last |-> [ret |-> r.ret, succeeds |-> succeeds, data |-> data,
                              before |-> linked_list.list,
                              heap_before |-> linked_list.heap]]
    /\ UNCHANGED <<parservars, pc, vmvars, hash_table, codec, opcode, number>>

NextLinkedList == LinkedListAdd

InitLinkedList ==
    /\ InitUtil("linked_list")
    /\ hash_table = NULL
    /\ codec = NULL
    /\ linked_list = [list |-> cm_list_init_nodes, heap |-> <<>>, ncalls |-> 0,
                      added |-> cm_list_init,
                      last |-> [ret |-> 1, succeeds |-> TRUE, data |-> <<>>,
                                before |-> cm_list_init_nodes, heap_before |-> <<>>]]

SpecLinkedList == InitLinkedList /\ [][NextLinkedList]_vars

(***************************************************************************)
(* Vocabulary of the properties                                            *)
(***************************************************************************)
Parsed == pc = "parsed"

\* the i-th token of the input stream, END_OF_FILE beyond its end
TokAt(i) == IF i <= Len(input) THEN input[i] ELSE EOFTok

TraceOf(op) == {parser.trace[i] : i \in {j \in DOMAIN parser.trace : parser.trace[j].op = op}}

\* the errors a traced call appended
ErrorsOf(e) == SubSeq(parser.errors, e.nerr0 + 1, e.nerr1)

RECURSIVE Nodes(_)
NodesOfSeq(items) == UNION {Nodes(items[i]) : i \in DOMAIN items}

\* all nodes of a subtree
Nodes(n) ==
    IF n = NULL THEN {}
    ELSE {n} \cup
         CASE n.kind \in {"Program", "Block"} -> NodesOfSeq(n.statements)
           [] n.kind = "Let" -> Nodes(n.name) \cup Nodes(n.value)
           [] n.kind = "Return" -> Nodes(n.return_value)
           [] n.kind = "ExprStmt" -> Nodes(n.expression)
           [] n.kind = "Prefix" -> Nodes(n.right)
           [] n.kind = "Infix" -> Nodes(n.left) \cup Nodes(n.right)
           [] n.kind = "If" ->
                Nodes(n.condition) \cup Nodes(n.consequence) \cup Nodes(n.alternative)
           [] n.kind = "FunctionLit" ->
                (IF n.parameters = NULL THEN {} ELSE NodesOfSeq(n.parameters.items))
                \cup Nodes(n.body)
           [] n.kind = "Call" ->
                Nodes(n.function)
                \cup (IF n.arguments = NULL THEN {} ELSE NodesOfSeq(n.arguments.items))
           [] OTHER -> {}

\* the precedence classes of the binary operators, as the specification lists them
OperatorClass(operator) ==
    CASE operator \in {<<"=", "=">>, <<"!", "=">>} -> 1
      [] operator \in {<<"<">>, <<">">>} -> 2
      [] operator \in {<<"+">>, <<"-">>} -> 3
      [] operator \in {<<"*">>, <<"/">>} -> 4

RECURSIVE Yield(_)
\* the token literals of an expression without grouping parentheses, in source order
Yield(n) ==
    CASE n.kind = "Ident" -> <<n.value>>
      [] n.kind = "Prefix" -> <<n.operator>> \o Yield(n.right)
      [] n.kind = "Infix" -> Yield(n.left) \o <<n.operator>> \o Yield(n.right)
      [] n.kind = "Call" ->
            Yield(n.function) \o <<<<"(">>>>
            \o Flatten([i \in DOMAIN n.arguments.items |->
                          (IF i > 1 THEN <<<<",">>>> ELSE <<>>) \o Yield(n.arguments.items[i])])
            \o <<<<")">>>>

SId(c) == [kind |-> "Ident", value |-> <<c>>]
SPrefix(op, right) == [kind |-> "Prefix", operator |-> op, right |-> right]
SInfix(left, op, right) == [kind |-> "Infix", operator |-> op, left |-> left, right |-> right]
SCall(function, args) == [kind |-> "Call", function |-> function, arguments |-> List(args)]
SExprProgram(e) ==
    [kind |-> "Program", statements |-> <<[kind |-> "ExprStmt", expression |-> e]>>]

(***************************************************************************)
(* C1 (SpecExpr).  Every expression built from the binary operators and    *)
(* the prefix operators - and ! is grouped by precedence: the parse keeps  *)
(* the tokens in order and reports no error; the right operand of a binary *)
(* operator is never a binary operator of the same or a lower class, the   *)
(* left operand never one of a lower class; the operand of a prefix        *)
(* operator is never a binary expression; the callee of a call is never a  *)
(* prefix or binary expression.  a + b * c is (a + (b * c)), a * b + c is  *)
(* ((a * b) + c), -a * b is ((-a) * b), -a(x) is (-(a(x))).                *)
(***************************************************************************)
C1_PrecedenceGrouping ==
    Parsed =>
        /\ parser.errors = <<>>
        /\ Len(program.statements) = 1
        /\ program.statements[1].expression # NULL
        /\ Yield(program.statements[1].expression) = [i \in DOMAIN input |-> input[i].literal]
        /\ \A n \in Nodes(program) :
              /\ n.kind = "Infix" =>
                    /\ n.right.kind = "Infix" =>
                          OperatorClass(n.right.operator) > OperatorClass(n.operator)
                    /\ n.left.kind = "Infix" =>
                          OperatorClass(n.left.operator) >= OperatorClass(n.operator)
              /\ n.kind = "Prefix" => n.right.kind \in {"Ident", "Call"}
              /\ n.kind = "Call" => n.function.kind = "Ident"
        /\ input = <<tIDENT("a"), tPLUS, tIDENT("b"), tASTERISK, tIDENT("c")>> =>
              Shape(program) =
                  SExprProgram(SInfix(SId("a"), <<"+">>, SInfix(SId("b"), <<"*">>, SId("c"))))
        /\ input = <<tIDENT("a"), tASTERISK, tIDENT("b"), tPLUS, tIDENT("c")>> =>
              Shape(program) =
                  SExprProgram(SInfix(SInfix(SId("a"), <<"*">>, SId("b")), <<"+">>, SId("c")))
        /\ input = <<tMINUS, tIDENT("a"), tASTERISK, tIDENT("b")>> =>
              Shape(program) =
                  SExprProgram(SInfix(SPrefix(<<"-">>, SId("a")), <<"*">>, SId("b")))
        /\ input = <<tMINUS, tIDENT("a"), tLPAREN, tIDENT("x"), tRPAREN>> =>
              Shape(program) =
                  SExprProgram(SPrefix(<<"-">>, SCall(SId("a"), <<SId("x")>>)))

\* a + b * c has been parsed, the product below the sum
C1_Witness ==
    /\ Parsed
    /\ input = <<tIDENT("a"), tPLUS, tIDENT("b"), tASTERISK, tIDENT("c")>>
    /\ program.statements[1].expression.right.kind = "Infix"
    /\ program.statements[1].expression.right.operator = <<"*">>

(***************************************************************************)
(* C2 (SpecOps).  As claimed: parse_expression extends the left operand    *)
(* only while the peek token is not ';' and min_prec < precedence(peek);   *)
(* adjacent binary operators of one class associate to the left; and on    *)
(* return of every call the peek token is ';', or has precedence <=        *)
(* min_prec, or has no infix parser.                                       *)
(***************************************************************************)
C2_ExtendsOnlyWhile ==
    \A e \in TraceOf("infix_fn") :
        e.peek0.type # "SEMICOLON" /\ e.arg < precedence(e.peek0.type)

C2_LeftAssociative ==
    Parsed =>
        /\ \A n \in Nodes(program) :
              (n.kind = "Infix" /\ n.right # NULL /\ n.right.kind = "Infix") =>
                  OperatorClass(n.right.operator) > OperatorClass(n.operator)
        /\ input = <<tIDENT("a"), tMINUS, tIDENT("a"), tMINUS, tIDENT("a")>> =>
              Shape(program) =
                  SExprProgram(SInfix(SInfix(SId("a"), <<"-">>, SId("a")), <<"-">>, SId("a")))
        /\ input = <<tIDENT("a"), tASTERISK, tIDENT("a"), tSLASH, tIDENT("a")>> =>
              Shape(program) =
                  SExprProgram(SInfix(SInfix(SId("a"), <<"*">>, SId("a")), <<"/">>, SId("a")))

PeekStopsExtension(e) ==
    \/ e.peek1.type = "SEMICOLON"
    \/ precedence(e.peek1.type) <= e.arg
    \/ infix_fns[e.peek1.type] = "NULL"

C2_Original ==
    /\ C2_ExtendsOnlyWhile
    /\ C2_LeftAssociative
    /\ \A e \in TraceOf("parse_expression") : PeekStopsExtension(e)

(***************************************************************************)
(* C2 amended (SpecOps).  The same, the statement about the peek token on  *)
(* return being made for the calls whose current token has a prefix parse  *)
(* function (a call that finds none returns at once, whatever the peek     *)
(* token is).                                                              *)
(***************************************************************************)
C2_Amended ==
    /\ C2_ExtendsOnlyWhile
    /\ C2_LeftAssociative
    /\ \A e \in TraceOf("parse_expression") :
          prefix_fns[e.cur0.type] # "NULL" => PeekStopsExtension(e)

\* a - a - a has been parsed, the first difference below the second
C2_Witness ==
    /\ Parsed
    /\ input = <<tIDENT("a"), tMINUS, tIDENT("a"), tMINUS, tIDENT("a")>>
    /\ program.statements[1].expression.left.kind = "Infix"
    /\ \E e \in TraceOf("parse_expression") : e.arg = SUM /\ e.peek1.type = "MINUS"

(***************************************************************************)
(* C3 (Spec).  A parse error does not stop or break the parser: whatever   *)
(* the tokens, parse_program reads them up to END_OF_FILE and returns a    *)
(* program, and no error path dereferences an absent expression.           *)
(***************************************************************************)
C3_ErrorsDoNotBreakParser ==
    pc \in {"parsed", "parse_crashed"} =>
        /\ ~parser.crashed
        /\ program # NULL
        /\ parser.cur_tok.type = "END_OF_FILE"

(***************************************************************************)
(* C4 (Spec).  A parse_expression call whose current token has             *)
(* no prefix parse function appends exactly one error, the text            *)
(* "no prefix parse function for token X" with X the token's literal,      *)
(* returns no expression and leaves the current and peek tokens unchanged. *)
(***************************************************************************)
NoPrefixCall(e, message) ==
    /\ e.nerr1 = e.nerr0 + 1
    /\ ErrorsOf(e) = <<message>>
    /\ e.ret = NULL
    /\ e.cur1 = e.cur0 /\ e.peek1 = e.peek0 /\ e.read1 = e.read0

C4_NoPrefixError ==
    \A e \in TraceOf("parse_expression") :
        prefix_fns[e.cur0.type] = "NULL" =>
            NoPrefixCall(e, <<"no prefix parse function for token ">> \o e.cur0.literal)

(***************************************************************************)
(* The same but for the text, which handle_no_prefix_fn writes as          *)
(* "no prefix parse function for the token "X"" (with the article, and X   *)
(* in double quotes).                                                      *)
(***************************************************************************)
C4_ExceptText ==
    \A e \in TraceOf("parse_expression") :
        prefix_fns[e.cur0.type] = "NULL" =>
            NoPrefixCall(e, <<"no prefix parse function for the token \"">>
                            \o e.cur0.literal \o <<"\"">>)

(***************************************************************************)
(* C5 (Spec).  expect_peek(t): when the peek token has kind t the parser   *)
(* advances by exactly one token, reports success and adds no error;       *)
(* otherwise it reports failure, appends exactly the one error             *)
(* "expected next token to be X, got Y instead" (X the name of t, Y the    *)
(* name of the peek token's kind) and leaves both tokens unchanged.        *)
(***************************************************************************)
C5_ExpectPeek ==
    \A e \in TraceOf("expect_peek") :
        IF e.peek0.type = e.arg
        THEN /\ e.ret = TRUE
             /\ e.cur1 = e.peek0 /\ e.peek1 = TokAt(e.read0 + 1) /\ e.read1 = e.read0 + 1
             /\ e.nerr1 = e.nerr0
        ELSE /\ e.ret = FALSE
             /\ e.nerr1 = e.nerr0 + 1
             /\ ErrorsOf(e) = <<<<"expected next token to be ", e.arg, ", got ",
                                  e.peek0.type, " instead">>>>
             /\ e.cur1 = e.cur0 /\ e.peek1 = e.peek0 /\ e.read1 = e.read0

\* expect_peek has both succeeded and failed while parsing the input
C5_Witness ==
    /\ \E e \in TraceOf("expect_peek") : e.arg = "RPAREN" /\ e.ret = TRUE /\ e.read1 = e.read0 + 1
    /\ \E e \in TraceOf("expect_peek") : e.arg = "IDENT" /\ e.ret = FALSE /\ e.nerr1 = e.nerr0 + 1

(***************************************************************************)
(* C6 (SpecStmt).  Parsing a return statement whose next token is ';'      *)
(* yields a Return statement without a value, records no parse error and   *)
(* consumes the ';'.                                                       *)
(***************************************************************************)
C6_BareReturn ==
    \A e \in TraceOf("parse_return_statement") :
        e.peek0.type = "SEMICOLON" =>
            /\ e.ret.kind = "Return" /\ e.ret.return_value = NULL
            /\ e.nerr1 = e.nerr0
            /\ e.cur1.type = "SEMICOLON" /\ e.read1 = e.read0 + 1

(***************************************************************************)
(* C7 (SpecStmt).  Parsing a let statement: when the token after `let` is  *)
(* not IDENT, or the token after the name is not '=', exactly one expect   *)
(* error is recorded and no Let statement reaches the program; otherwise a *)
(* Let statement is produced whose name is the identifier's literal and    *)
(* whose value is the expression parse_expression(LOWEST) yields from the  *)
(* token after '=', and a ';' that follows is consumed with the statement. *)
(***************************************************************************)
\* the parser as it stands on the index-th token of the input, nothing recorded
ParserAt(index) ==
    [lexer |-> [toks |-> input, read |-> index + 1],
     cur_tok |-> TokAt(index), peek_tok |-> TokAt(index + 1), errors |-> <<>>,
     nalloc |-> 0, freed |-> <<>>, crashed |-> FALSE, trace |-> <<>>]

ExpectError(t, got) == <<"expected next token to be ", t, ", got ", got, " instead">>

C7_LetStatement ==
    \A e \in TraceOf("parse_letstatement") :
        LET after_name == TokAt(e.read0 + 1)
            value == parse_expression(ParserAt(e.read0 + 2), LOWEST)
        IN  IF e.peek0.type # "IDENT"
            THEN /\ e.ret = NULL
                 /\ ErrorsOf(e) = <<ExpectError("IDENT", e.peek0.type)>>
                 /\ Parsed => \A n \in NodesOfSeq(program.statements) : n.id # e.nalloc0 + 1
            ELSE IF after_name.type # "ASSIGN"
            THEN /\ e.ret = NULL
                 /\ ErrorsOf(e) = <<ExpectError("ASSIGN", after_name.type)>>
                 /\ Parsed => \A n \in NodesOfSeq(program.statements) : n.id # e.nalloc0 + 1
            ELSE /\ e.ret.kind = "Let"
                 /\ e.ret.name.kind = "Ident" /\ e.ret.name.value = e.peek0.literal
                 /\ Shape(e.ret.value) = Shape(value.exp)
                 /\ e.read1 = value.p.lexer.read
                              + (IF value.p.peek_tok.type = "SEMICOLON" THEN 1 ELSE 0)
                 /\ value.p.peek_tok.type = "SEMICOLON" => e.cur1.type = "SEMICOLON"
                 /\ Parsed => e.ret \in Nodes(program)

\* `let a = a;` has been parsed: the identifier is the value, the ';' is consumed
C7_Witness ==
    /\ Parsed
    /\ Len(program.statements) = 1
    /\ \E e \in TraceOf("parse_letstatement") :
          /\ e.ret # NULL /\ e.ret.value # NULL /\ e.ret.value.kind = "Ident"
          /\ e.cur1.type = "SEMICOLON"

(***************************************************************************)
(* C9 (Spec).  After parse_program and program_free every AST node and     *)
(* every token copy allocated while parsing has been destroyed exactly     *)
(* once.                                                                   *)
(***************************************************************************)
TimesFreed(cell) == Cardinality({i \in DOMAIN parser.freed : parser.freed[i] = cell})

C9_DestroyedExactlyOnce ==
    pc = "freed" =>
        /\ \A id \in 1..parser.nalloc :
              TimesFreed(<<"node", id>>) = 1 /\ TimesFreed(<<"token", id>>) = 1

(***************************************************************************)
(* C8 (SpecWF).  For a well-formed program the string form, lexed and      *)
(* parsed again, yields a structurally identical AST and no parse errors   *)
(* (stated of the runs in which printing had defined behaviour).           *)
(***************************************************************************)
C8_RoundTrip ==
    (pc = "reparsed" /\ ~text.nullarg) =>
        /\ reparsed.errors = <<>>
        /\ ~reparsed.crashed
        /\ Shape(reparsed.program) = Shape(program)

(***************************************************************************)
(* C10 (SpecWF).  The string form is total: for every program parsed       *)
(* without error, computing it terminates and returns a string.            *)
(***************************************************************************)
C10_StringFormTotal ==
    (pc \in {"printed", "string_crashed"} /\ parser.errors = <<>>) =>
        /\ text.fault = "none"
        /\ ~text.isnull


(***************************************************************************)
(* Vocabulary of the properties of the compiler and the virtual machine    *)
(***************************************************************************)
\* the machine exists and no undefined access ended its run
VMRan == pc \in {"running", "halted", "aborted"}

\* the instruction just executed
Executed(op) == VMRan /\ vm.last.op = op

\* the instruction buffers of the bytecode: the top level and every compiled function
Buffers ==
    {get_bytecode(compiler).instructions}
    \cup {compiler.constants[i].instructions :
             i \in {j \in DOMAIN compiler.constants :
                        compiler.constants[j].type = "COMPILED_FUNCTION"}}

\* the offsets of the jumps of a buffer
Jumps(ins) == {o \in InstructionStarts(ins) : ByteAt(ins, o) \in {OPJMPFALSE, OPJMP}}

\* the program is one expression statement holding an if-expression
IfProgram ==
    /\ Len(program.statements) = 1
    /\ program.statements[1].kind = "ExprStmt"
    /\ program.statements[1].expression.kind = "If"

\* the outermost frame is about to execute the last instruction of the program
AtLastInstruction ==
    /\ pc = "running"
    /\ frame_index(vm) = 1
    /\ current_frame(vm).ip = Len(current_frame(vm).fn.instructions) - 1

(***************************************************************************)
(* C11: at every step of the virtual machine the stack pointer is at or    *)
(* above base_pointer + num_locals of the current frame, and no POP,       *)
(* SETLOCAL, SETGLOBAL, JMPFALSE or RETURNVALUE pops a slot of the         *)
(* parameters and locals of the frame it executes in.                      *)
(***************************************************************************)
C11_StackAboveLocals ==
    VMRan =>
        /\ vm.frames # <<>> => vm.sp >= FrameFloor(vm)
        /\ vm.last.op \in {OPPOP, OPSETLOCAL, OPSETGLOBAL, OPJMPFALSE, OPRETURNVALUE}
               => ~vm.last.dipped

(***************************************************************************)
(* C12: when a called compiled function returns, the stack pointer equals  *)
(* the base pointer of its frame, which is the stack pointer before the    *)
(* CALL minus the number of arguments; the result is in the slot the       *)
(* callee was in, and the frame index is what it was before the CALL.      *)
(***************************************************************************)
C12_ReturnRestoresStack ==
    VMRan /\ vm.last.op \in {OPRETURNVALUE, OPRETURN} /\ vm.last.returned.call # NULL =>
        /\ vm.sp = vm.last.returned.base_pointer
        /\ vm.sp = vm.last.returned.call.sp - vm.last.returned.call.nargs
        /\ vm.stack[vm.last.returned.call.sp - vm.last.returned.call.nargs - 1]
               = (IF vm.last.op = OPRETURNVALUE THEN vm.last_popped ELSE Null)
        /\ frame_index(vm) = vm.last.returned.call.frame_index

\* a function called with an argument has returned an integer
C12_Witness ==
    /\ Executed(OPRETURNVALUE)
    /\ vm.last.returned.call # NULL
    /\ vm.last.returned.call.nargs = 1
    /\ vm.sp = 1
    /\ vm.stack[0].type = "INTEGER"

(***************************************************************************)
(* C13: in the compiled instructions, of the top level and of every        *)
(* compiled function, the operand of every JMPFALSE and JMP is patched     *)
(* (not 0xFFFF) and is an offset of its own buffer at which an instruction *)
(* starts, or the end of the buffer.                                       *)
(***************************************************************************)
C13_JumpsPatched ==
    pc = "compiled" =>
        \A ins \in Buffers : \A o \in Jumps(ins) :
            /\ OperandAt(ins, o) # PLACEHOLDER
            /\ OperandAt(ins, o) \in InstructionStarts(ins) \cup {Len(ins)}

\* a program with jumps at the top level and in a compiled function, where a
\* jump leads to the instruction that took the place of a removed POP
C13_Witness ==
    /\ pc = "compiled"
    /\ Jumps(get_bytecode(compiler).instructions) # {}
    /\ \E ins \in Buffers \ {get_bytecode(compiler).instructions} :
           \E o \in Jumps(ins) :
               /\ ByteAt(ins, o) = OPJMPFALSE
               /\ ByteAt(ins, OperandAt(ins, o) - 3) = OPJMP

(***************************************************************************)
(* C14: no run executes GETGLOBAL i before a SETGLOBAL i: a program in     *)
(* which a global could be read before it is set is rejected by the        *)
(* compiler with "undefined variable".                                     *)
(***************************************************************************)
C14_NoGlobalReadBeforeSet == VMRan => ~vm.last.unset_read

(***************************************************************************)
(* C15: the instructions of an if-expression leave exactly one value more  *)
(* on the stack than they found, whatever its blocks are; the value is     *)
(* Null when the condition is falsy and there is no else.  Stated of a     *)
(* program that is one if-expression statement: when only its POP is left  *)
(* to execute, the stack holds one value.                                  *)
(***************************************************************************)
C15_IfPushesOneValue ==
    AtLastInstruction /\ IfProgram =>
        /\ vm.sp = 1
        /\ (/\ program.statements[1].expression.alternative = NULL
            /\ program.statements[1].expression.condition.kind = "Bool"
            /\ ~program.statements[1].expression.condition.value)
               => vm.stack[0] = Null

(***************************************************************************)
(* C16: CALL n on a compiled function with another number of parameters    *)
(* aborts with "wrong number of arguments: want=<num_parameters> got=<n>"  *)
(* and pushes no frame; CALL on a value that is neither a compiled         *)
(* function nor a builtin aborts with "not a function"; after an abort no  *)
(* instruction executes.                                                   *)
(***************************************************************************)
WrongArity ==
    /\ Executed(OPCALL)
    /\ vm.last.callee.type = "COMPILED_FUNCTION"
    /\ vm.last.callee.num_parameters # vm.last.operand

NotCallable ==
    /\ Executed(OPCALL)
    /\ vm.last.callee.type \in {"INTEGER", "BOOLEAN", "NULL", "ERROR"}

C16_CallChecked ==
    /\ WrongArity =>
           /\ pc = "aborted"
           /\ vm.error = <<"wrong number of arguments: want=">>
                         \o long_to_string(Long(vm.last.callee.num_parameters))
                         \o <<" got=">> \o long_to_string(Long(vm.last.operand))
           /\ frame_index(vm) = vm.last.frame_index
           /\ current_frame(vm).fn # vm.last.callee
    /\ NotCallable =>
           /\ pc = "aborted"
           /\ Head(vm.error) = "not a function: "
           /\ frame_index(vm) = vm.last.frame_index

C16_NothingAfterAbort == pc = "aborted" => vm' = vm /\ pc' = pc

C16_CallAborts == [](C16_CallChecked) /\ [][C16_NothingAfterAbort]_vars

\* both aborts happen: a function of one parameter called with two arguments,
\* and a call of an integer
C16_Witness ==
    /\ pc = "aborted"
    /\ \/ WrongArity /\ vm.last.callee.num_parameters = 1 /\ vm.last.operand = 2
       \/ NotCallable /\ vm.last.callee.type = "INTEGER"

(***************************************************************************)
(* C17: after puts of pairwise distinct keys, also of keys that fall into  *)
(* the same bucket, cm_hash_table_get(k) returns the value put with k, and *)
(* NULL for a key that was never put.                                      *)
(***************************************************************************)
DistinctKeys(puts) == \A i, j \in DOMAIN puts : i # j => puts[i].key # puts[j].key

PutsOf(key) == {i \in DOMAIN hash_table.puts : hash_table.puts[i].key = key}

C17_GetReturnsPut ==
    pc = "hash" /\ hash_table.got # NULL /\ DistinctKeys(hash_table.puts) =>
        IF PutsOf(hash_table.got.key) = {}
        THEN hash_table.got.value = NULL
        ELSE \A i \in PutsOf(hash_table.got.key) :
                 hash_table.got.value = hash_table.puts[i].value

\* the key found is the second entry of its bucket, and its value is not the
\* value of the first
C17_Witness ==
    /\ pc = "hash"
    /\ hash_table.got # NULL
    /\ DistinctKeys(hash_table.puts)
    /\ hash_table.t.nkeys = 3
    /\ hash_table.t.nentries = 2
    /\ \E b \in DOMAIN hash_table.t.table :
           /\ hash_table.t.table[b] # NULL
           /\ Len(hash_table.t.table[b].items) = 2
           /\ hash_table.t.table[b].items[2].key = hash_table.got.key
           /\ hash_table.t.table[b].items[1].value # hash_table.got.value

(***************************************************************************)
(* C18: for every i in 0..65535 the two-byte encoding of i decodes to i,   *)
(* and it is big-endian: the first byte is i / 256, the second i mod 256.  *)
(***************************************************************************)
C18_CodecRoundTrip ==
    /\ (pc = "codec" /\ codec.phase \in {"encoded", "decoded"}) =>
           codec.bytes = <<codec.value \div 256, codec.value % 256>>
    /\ (pc = "codec" /\ codec.phase = "decoded") => codec.decoded = codec.value

\* a value whose two bytes differ went through the codec
C18_Witness ==
    /\ pc = "codec"
    /\ codec.phase = "decoded"
    /\ codec.value = 258
    /\ codec.bytes = <<1, 2>>


(***************************************************************************)
(* C22: for every opcode, opcode_definition_lookup(op) is the entry of     *)
(* the definitions table that belongs to op (the enum and the table agree  *)
(* in their order for all 27 opcodes), and its operand width is the one of *)
(* the opcode table of the specification: 2 bytes for CONST, JMPFALSE,     *)
(* JMP, SETGLOBAL, GETGLOBAL, ARRAY and HASH, 1 byte for CALL, SETLOCAL,   *)
(* GETLOCAL and GETBUILTIN, 0 for every other opcode.                      *)
(***************************************************************************)
\* the enumerator of opcode_t with the value op
EnumeratorOf(op) ==
    CASE op = OPCONSTANT -> "OPCONSTANT"       [] op = OPADD -> "OPADD"
      [] op = OPSUB -> "OPSUB"                 [] op = OPMUL -> "OPMUL"
      [] op = OPDIV -> "OPDIV"                 [] op = OPPOP -> "OPPOP"
      [] op = OPTRUE -> "OPTRUE"               [] op = OPFALSE -> "OPFALSE"
      [] op = OPEQUAL -> "OPEQUAL"             [] op = OPNOTEQUAL -> "OPNOTEQUAL"
      [] op = OPGREATERTHAN -> "OPGREATERTHAN" [] op = OPMINUS -> "OPMINUS"
      [] op = OPBANG -> "OPBANG"               [] op = OPJMPFALSE -> "OPJMPFALSE"
      [] op = OPJMP -> "OPJMP"                 [] op = OPNULL -> "OPNULL"
      [] op = OPSETGLOBAL -> "OPSETGLOBAL"     [] op = OPGETGLOBAL -> "OPGETGLOBAL"
      [] op = OPARRAY -> "OPARRAY"             [] op = OPHASH -> "OPHASH"
      [] op = OPINDEX -> "OPINDEX"             [] op = OPCALL -> "OPCALL"
      [] op = OPRETURNVALUE -> "OPRETURNVALUE" [] op = OPRETURN -> "OPRETURN"
      [] op = OPSETLOCAL -> "OPSETLOCAL"       [] op = OPGETLOCAL -> "OPGETLOCAL"
      [] op = OPGETBUILTIN -> "OPGETBUILTIN"

\* the operand width of the specification's opcode table
TableWidth(op) ==
    IF op \in {OPCONSTANT, OPJMPFALSE, OPJMP, OPSETGLOBAL, OPGETGLOBAL, OPARRAY, OPHASH}
    THEN 2
    ELSE IF op \in {OPCALL, OPSETLOCAL, OPGETLOCAL, OPGETBUILTIN} THEN 1 ELSE 0

LookedUp == pc = "opcode" /\ opcode.phase # "op"

C22_LookupMatchesEnum ==
    /\ pc = "opcode" => /\ Cardinality(Opcodes) = 27
                        /\ Len(opcode_definitions) = 27
    /\ LookedUp =>
           /\ opcode.def.name = EnumeratorOf(opcode.op)
           /\ opcode.def.operand_widths[1] = TableWidth(opcode.op)

\* the last opcode of the enum found the last entry of the table
C22_Witness ==
    /\ LookedUp
    /\ opcode.op = OPGETBUILTIN
    /\ opcode.def.name = "OPGETBUILTIN"
    /\ opcode.def.operand_widths[1] = 1

(***************************************************************************)
(* C23: a new hash table has table_size = INITIAL_HASHTABLE_SIZE, every    *)
(* bucket empty, no used bucket counted and nkeys = 0; after any sequence  *)
(* of puts of distinct keys nkeys is the number of puts, the count of used *)
(* buckets (nentries) is the number of non-empty buckets and at most       *)
(* table_size, and table_size is unchanged.                                *)
(***************************************************************************)
UsedBuckets(t) == {b \in DOMAIN t.table : t.table[b] # NULL}

C23_TableCounts ==
    pc = "hash" =>
        /\ hash_table.t.table_size = INITIAL_HASHTABLE_SIZE
        /\ DOMAIN hash_table.t.table = 0..(INITIAL_HASHTABLE_SIZE - 1)
        /\ hash_table.puts = <<>> =>
               /\ UsedBuckets(hash_table.t) = {}
               /\ hash_table.t.nentries = 0
               /\ hash_table.t.nkeys = 0
        /\ DistinctKeys(hash_table.puts) =>
               /\ hash_table.t.nkeys = Len(hash_table.puts)
               /\ hash_table.t.nentries = Cardinality(UsedBuckets(hash_table.t))
               /\ hash_table.t.nentries <= hash_table.t.table_size

\* three distinct keys were put, two of them into one bucket
C23_Witness ==
    /\ pc = "hash"
    /\ hash_table.got = NULL
    /\ Len(hash_table.puts) = 3
    /\ DistinctKeys(hash_table.puts)
    /\ Cardinality(UsedBuckets(hash_table.t)) = 2
    /\ hash_table.t.nentries = 2
    /\ hash_table.t.nkeys = 3

(***************************************************************************)
(* C28: a put of a key that is already present replaces its value: after   *)
(* cm_hash_table_put(k, v1) and cm_hash_table_put(k', v2) with k' equal to *)
(* k under keycmp, cm_hash_table_get(k) returns v2, and nkeys counts k     *)
(* once: nkeys is always the number of distinct keys stored.               *)
(***************************************************************************)
LastPutOf(key) == CHOOSE i \in PutsOf(key) : \A j \in PutsOf(key) : j <= i

KeysPut == {hash_table.puts[i].key : i \in DOMAIN hash_table.puts}

C28_PutReplaces ==
    /\ pc = "hash" => hash_table.t.nkeys = Cardinality(KeysPut)
    /\ pc = "hash" /\ hash_table.got # NULL /\ PutsOf(hash_table.got.key) # {} =>
           hash_table.got.value = hash_table.puts[LastPutOf(hash_table.got.key)].value

(***************************************************************************)
(* C24: the parser always holds two consecutive tokens of the lexer's      *)
(* stream: parser_init loads the first token into current and the second   *)
(* into peek, every advance moves current to the old peek and peek to the  *)
(* next token of the lexer, so before and after every parse operation peek *)
(* is the token that follows current in the stream and no token is skipped *)
(* or delivered twice.                                                     *)
(***************************************************************************)
\* current and peek are the tokens read - 1 and read of the stream
Consecutive(cur, peek, read) ==
    /\ read >= 2
    /\ cur = TokAt(read - 1)
    /\ peek = TokAt(read)

C24_TwoConsecutiveTokens ==
    pc \in {"init", "parsed", "parse_crashed"} =>
        /\ pc = "init" => parser.lexer.read = 2
        /\ Consecutive(parser.cur_tok, parser.peek_tok, parser.lexer.read)
        /\ \A i \in DOMAIN parser.trace :
               /\ Consecutive(parser.trace[i].cur0, parser.trace[i].peek0,
                              parser.trace[i].read0)
               /\ Consecutive(parser.trace[i].cur1, parser.trace[i].peek1,
                              parser.trace[i].read1)
               /\ parser.trace[i].read0 <= parser.trace[i].read1

\* a stream of three different tokens was parsed to its end
C24_Witness ==
    /\ Parsed
    /\ Len(input) = 3
    /\ input[1] # input[2]
    /\ input[2] # input[3]
    /\ parser.trace # <<>>
    /\ parser.lexer.read = Len(input) + 2
    /\ parser.cur_tok = EOFTok

(***************************************************************************)
(* C25: if parse_program finishes with an empty error list the tree is     *)
(* well-formed: every Prefix has its operand, every Infix both operands,   *)
(* every Let a name and a value, every ExprStmt an expression, every If a  *)
(* condition and a consequence block, every Call a callee and no absent    *)
(* argument, and every parameter of a FunctionLit was an IDENT token.      *)
(***************************************************************************)
Present(n) == n # NULL

WellFormedNode(n) ==
    CASE n.kind = "Prefix" -> Present(n.right)
      [] n.kind = "Infix" -> Present(n.left) /\ Present(n.right)
      [] n.kind = "Let" -> Present(n.name) /\ Present(n.value)
      [] n.kind = "ExprStmt" -> Present(n.expression)
      [] n.kind = "If" -> Present(n.condition) /\ Present(n.consequence)
      [] n.kind = "Call" ->
           /\ Present(n.function)
           /\ Present(n.arguments)
           /\ \A i \in DOMAIN n.arguments.items : Present(n.arguments.items[i])
      [] OTHER -> TRUE

ParametersAreIdents(n) ==
    n.kind = "FunctionLit" =>
        /\ Present(n.parameters)
        /\ \A i \in DOMAIN n.parameters.items : n.parameters.items[i].token.type = "IDENT"

ParsedWithoutErrors == Parsed /\ parser.errors = <<>>

C25_NodesWellFormed ==
    ParsedWithoutErrors => \A n \in Nodes(program) : WellFormedNode(n)

C25_WellFormedTree ==
    ParsedWithoutErrors =>
        \A n \in Nodes(program) : WellFormedNode(n) /\ ParametersAreIdents(n)

(***************************************************************************)
(* C27: a block (consequence, alternative or function body) that is not    *)
(* closed by '}' before END_OF_FILE is reported: parse_block_statement     *)
(* returns with the current token being '}', or else a parse error has     *)
(* been appended to the error list.                                        *)
(***************************************************************************)
C27_UnclosedBlockReported ==
    Parsed =>
        \A e \in TraceOf("parse_block_statement") :
            e.cur1.type = "RBRACE" \/ Len(parser.errors) > e.nerr0

(***************************************************************************)
(* C26: for every finite token stream, which ends with END_OF_FILE         *)
(* returned again and again, parse_program terminates: every iteration of  *)
(* a loop of the parser consumes at least one token or leaves the loop,    *)
(* and no parse function keeps advancing past END_OF_FILE.                 *)
(***************************************************************************)
\* the parse ended at END_OF_FILE, at most two tokens behind the first one
\* the lexer returned
EndedAt(p) ==
    \/ p.crashed
    \/ /\ p.cur_tok = EOFTok
       /\ p.lexer.read <= Len(input) + 3

\* one iteration of the loop of parse_program and of parse_block_statement
\* with the current token at index consumes a token: parse a statement, then
\* advance
StatementStepAdvances(index) ==
    LET Advanced(q) == q.crashed \/ q.lexer.read > index + 1
    IN  Advanced(parser_next_token(parser_parse_statement(ParserAt(index)).p))

C26_Progress ==
    /\ pc = "init" => LET Returns(r) == EndedAt(r.p) IN Returns(parse_program(parser))
    /\ pc \in {"parsed", "parse_crashed"} =>
           /\ EndedAt(parser)
           /\ \A i \in DOMAIN parser.trace : parser.trace[i].read0 <= parser.trace[i].read1
           /\ \A e \in TraceOf("infix_fn") : e.read1 > e.read0
           /\ \A index \in 1..Len(input) : StatementStepAdvances(index)

C26_ParseTerminates ==
    /\ []C26_Progress
    /\ (pc = "init") ~> (pc \in {"parsed", "parse_crashed"})

\* a function literal with two parameters whose body was cut short by the
\* end of the stream has been parsed
C26_Witness ==
    /\ Parsed
    /\ Len(input) >= 6
    /\ input[1].type = "FUNCTION"
    /\ input[4].type = "COMMA"
    /\ input[Len(input)].type # "RBRACE"
    /\ TraceOf("parse_block_statement") # {}
    /\ parser.cur_tok = EOFTok
    /\ parser.lexer.read = Len(input) + 3

(***************************************************************************)
(* C29: for every long l, zero, the negative values and the least value    *)
(* included, long_to_string(l) returns the canonical decimal text of l: a  *)
(* '-' in front exactly when l < 0, no leading zeros, "0" for zero; the    *)
(* text starts at the first byte of the buffer returned, and               *)
(* calculate_string_size(l) is the number of characters of that text.      *)
(***************************************************************************)
RECURSIVE Places(_, _)
\* the decimal digits of the natural number n, in at least width places
Places(n, width) ==
    IF n < 10 /\ width <= 1 THEN <<Digits[n + 1]>>
    ELSE Append(Places(n \div 10, width - 1), Digits[(n % 10) + 1])

\* the canonical decimal text, read off the limbs of l
Decimal(l) ==
    (IF l.neg THEN <<"-">> ELSE <<>>)
        \o (IF l.hi > 0 THEN Places(l.hi, 1) \o Places(l.mid, 9) \o Places(l.lo, 9)
            ELSE IF l.mid > 0 THEN Places(l.mid, 1) \o Places(l.lo, 9)
            ELSE Places(l.lo, 1))

C29_CanonicalDecimal ==
    pc = "number" =>
        /\ number.phase \in {"long", "sized", "text"}
        /\ number.phase \in {"sized", "text"} => number.size = Len(Decimal(number.l))
        /\ number.phase = "text" => number.str = Decimal(number.l)

\* the claim for every long but the least
C29_ExceptLeast == pc = "number" /\ number.l # LONG_MIN => C29_CanonicalDecimal

(***************************************************************************)
(* C30: after cm_list_init and any sequence of cm_list_add calls, length   *)
(* is the number of nodes reachable from head; head is NULL iff tail is    *)
(* NULL iff length is 0; tail is the last node reachable from head and its *)
(* next is NULL; the traversal from head yields the data in the order of   *)
(* insertion; and a cm_list_add that fails to allocate returns 0 and       *)
(* leaves head, tail and length unchanged.                                 *)
(***************************************************************************)
RECURSIVE NodesFrom(_, _, _)
\* the nodes met from node on by following next, at most fuel of them
NodesFrom(heap, node, fuel) ==
    IF node = NullPointer \/ fuel = 0 THEN <<>>
    ELSE <<node>> \o NodesFrom(heap, heap[node].next, fuel - 1)

\* one more than the nodes of the heap, so that a cycle shows
Reachable(list, heap) == NodesFrom(heap, list.head, Len(heap) + 1)

DataOf(heap, nodes) == [i \in DOMAIN nodes |-> heap[nodes[i]].data]

C30_ListWellFormed ==
    pc = "linked_list" =>
        LET nodes == Reachable(linked_list.list, linked_list.heap)
            list == linked_list.list
        IN  /\ list.length = Len(nodes)
            /\ (list.head = NullPointer) = (list.tail = NullPointer)
            /\ (list.head = NullPointer) = (list.length = 0)
            /\ list.length > 0 =>
                   /\ list.tail = nodes[Len(nodes)]
                   /\ linked_list.heap[list.tail].next = NullPointer
            /\ DataOf(linked_list.heap, nodes) = linked_list.added.items
            /\ ~linked_list.last.succeeds =>
                   /\ linked_list.last.ret = 0
                   /\ list = linked_list.last.before
                   /\ linked_list.heap = linked_list.last.heap_before
            /\ linked_list.last.succeeds => linked_list.last.ret = 1

\* an add failed after three had succeeded, the first on the empty list
C30_Witness ==
    /\ pc = "linked_list"
    /\ linked_list.ncalls = 4
    /\ linked_list.last.ret = 0
    /\ linked_list.list.length = 3
    /\ linked_list.list.head = 1
    /\ linked_list.list.tail = 3
    /\ linked_list.added.items[1] # linked_list.added.items[2]
====
